---- MODULE Spec2Model ----
(***************************************************************************)
(* Frame loop, swapchain recreation and render-target registry of the      *)
(* renderer (src/src/renderer/renderer.rs, src/src/application/            *)
(* application.rs, src/src/renderer/render_target.rs), together with the   *)
(* GPU queue and the presentation engine the frame loop talks to.          *)
(***************************************************************************)
EXTENDS Integers, Sequences, FiniteSets, TLC

(* ---------------------------------------------------------------------- *)
(* Program constants                                                       *)
(* ---------------------------------------------------------------------- *)
MAX_FRAME_COUNT == 2
SWAPCHAIN_IMAGE_COUNT == 3
SHADOW_MAP_SIZE == 2048
PASSES == 8
FFT_SIZE == 2 ^ PASSES
N_SLOPE_VARIANCE == 10
FFT_LAYER_COUNT == 5
DEFAULT_FFT_SEED == 1234
GRID1_SIZE == 5488
GRID2_SIZE == 392
GRID3_SIZE == 28
GRID4_SIZE == 2

FRAME_INDICES == 0 .. (MAX_FRAME_COUNT - 1)
SWAPCHAIN_IMAGE_INDICES == 0 .. (SWAPCHAIN_IMAGE_COUNT - 1)

(* ---------------------------------------------------------------------- *)
(* Bounds of the model                                                     *)
(* ---------------------------------------------------------------------- *)
\* how many swapchain recreations a behaviour may contain
MaxRecreate == 2
\* how many submissions the GPU queue may hold
MaxGpuQueue == 3
\* up to how many frames the count of rendered frames is kept
MaxFrames == 3
\* the largest width, height or depth of an image
MaxImageSize == 2048
\* the sizes given to create_render_target reach 2^MaxSizeBits - 1
MaxSizeBits == 25
\* how many next/previous debug-target commands a behaviour may contain
MaxDebugCommands == 6

\* window sizes the windowing system may report
WindowSizes == { <<1024, 768>>, <<800, 600>> }
initial_window_size == <<1024, 768>>

\* "no frame slot" (a null fence or semaphore) and "no swapchain image": an
\* index outside FRAME_INDICES, outside SWAPCHAIN_IMAGE_INDICES
NoSlot == MAX_FRAME_COUNT
NoImage == SWAPCHAIN_IMAGE_COUNT

(* ---------------------------------------------------------------------- *)
(* Render-target kinds                                                     *)
(* ---------------------------------------------------------------------- *)
RenderTargetType ==
    << "SceneColor", "SceneColorCopy", "SceneDepth", "HierarchicalMinZ",
       "BackBuffer", "BackBufferCopy", "SceneAlbedo", "SceneNormal",
       "SceneMaterial", "SceneVelocity", "TAAResolve", "Bloom0", "BloomTemp0",
       "LightShaft", "SSAO", "SSAOTemp", "Shadow", "SSR", "SSRResolved",
       "SSRResolvedPrev", "FFT_A", "FFT_B", "FFT_SLOPE_VARIANCE", "MaxBound" >>

RenderTargetKinds == { RenderTargetType[n] : n \in 1 .. Len(RenderTargetType) }

\* the kinds whose size does not depend on the window extent
FixedSizeKinds == { "Shadow", "FFT_A", "FFT_B", "FFT_SLOPE_VARIANCE" }

NoTexture ==
    [ kind |-> "None", gen |-> -1, format |-> "UNDEFINED", width |-> 0,
      height |-> 0, depth |-> 0, layer |-> 0, mip_levels |-> 0 ]

VARIABLES
    \* event loop (run_application)
    pc,                     \* position of the CPU thread
    initialize_done,
    run_application,
    window_size,            \* ApplicationData._window_size
    \* RendererData
    frame_index,
    swapchain_index,
    need_recreate_swapchain,
    swapchain_extent,
    frame_fences,           \* fence signaled?, per frame slot
    image_available_semaphores,   \* signaled?, per frame slot
    render_finished_semaphores,   \* signaled?, per frame slot
    command_buffers,        \* state of the command buffer, per swapchain image
    render_target_data_map, \* kind -> texture (NoTexture when absent)
    \* Resources / scene graphics data
    framebuffer_datas,
    descriptor_sets,
    fft_framebuffers,
    \* device
    live_textures,          \* textures created and not destroyed
    texture_gen,            \* number of create_render_targets calls so far
    gpu_queue,              \* submissions not yet completed, oldest first
    gpu_executing,          \* the oldest submission has passed its semaphore wait
    cpu_writing,            \* swapchain index whose replica the CPU is writing
    \* presentation engine
    img_acquired,           \* the application holds the image
    img_pe,                 \* "none" or "presenting": the engine reads the image
    img_present,            \* "none", "queued" or "rejected": present request
    img_pe_sem,             \* frame slot of the semaphore a queued present waits on
    img_pending_sem,        \* frame slot to signal when the engine releases the image
    \* observations of the run
    fence_observed,         \* the CPU has waited on the fence since its last reset
    cb_last_slot,           \* frame slot of the last submit of the command buffer
    cb_pending,             \* submitted, completion not yet observed by the CPU
    acquire_sem,            \* frame slot whose semaphore this frame's acquire used
    acquire_result,
    present_result,
    recorded_this_tick,
    flag_at_top,
    recreated_this_tick,
    event_since_clear,
    recreate_log,
    frames_rendered,        \* render_scene calls that have returned, up to MaxFrames
    camera_aspect           \* the size last given to the main camera's set_aspect

rendererVars == << pc, initialize_done, run_application, window_size, frame_index, swapchain_index,
           need_recreate_swapchain, swapchain_extent, frame_fences,
           image_available_semaphores, render_finished_semaphores,
           command_buffers, render_target_data_map, framebuffer_datas,
           descriptor_sets, fft_framebuffers, live_textures, texture_gen,
           gpu_queue, gpu_executing, cpu_writing, img_acquired, img_pe,
           img_present, img_pe_sem, img_pending_sem, fence_observed, cb_last_slot,
           cb_pending, acquire_sem, acquire_result, present_result,
           recorded_this_tick, flag_at_top, recreated_this_tick,
           event_since_clear, recreate_log, frames_rendered, camera_aspect >>

appVars == << initialize_done, run_application, window_size >>
syncVars == << frame_fences, image_available_semaphores, render_finished_semaphores >>
resourceVars == << render_target_data_map, framebuffer_datas, descriptor_sets,
                   fft_framebuffers, live_textures, texture_gen >>
gpuVars == << gpu_queue, gpu_executing >>
peVars == << img_acquired, img_pe, img_present, img_pe_sem, img_pending_sem >>
tickVars == << flag_at_top, recreated_this_tick, recreate_log >>

\* what the recording functions are given and what they leave in the command buffer
VARIABLES
    rec_pc,                     \* which recording function has run ("start": none yet)
    static_render_elements,     \* the material instance of each static render element
    skeletal_render_elements,   \* the material instance of each skeletal render element
    debug_render_target,        \* RendererData::_debug_render_target
    debug_commands,             \* next/previous debug-target commands so far
    effect_render_group,        \* the material instance of each emitter to draw
    allocated_emitters,         \* EffectManagerData::_allocated_emitters
    allocated_emitter_count,    \* EffectManagerData::_allocated_emitter_count
    allocated_particle_count,   \* EffectManagerData::_allocated_particle_count
    recorded                    \* the calls made on the command buffer, in order

recordInputs == << static_render_elements, skeletal_render_elements,
                   debug_render_target, debug_commands, effect_render_group >>

recordVars == << rec_pc, recordInputs, allocated_emitters, allocated_emitter_count,
                allocated_particle_count, recorded >>

\* the framebuffers and descriptor sets the post-process features hold
VARIABLES
    image_mip_levels,           \* TextureData::_image_mip_levels of the chained targets
    image_layers,               \* TextureData::_image_layers of the FFT targets
    pass_bindings,              \* per feature: its (framebuffer, descriptor set) pairs
    mip_descriptor_sets,        \* per feature: its descriptor sets, by layer and mip
    fft_wave_bindings,          \* FFTOcean: the framebuffers and descriptor sets on FFT_A, FFT_B
    fft_passes,                 \* the FFT wave passes of the last simulate_fft_waves
    current_ssr_resolved,       \* RendererData_SSR::_current_ssr_resolved
    previous_ssr_resolved,      \* RendererData_SSR::_previous_ssr_resolved
    ssr_update_count,           \* calls of RendererData_SSR::update, up to MaxSsrUpdates
    render_fft_ocean_descriptor_sets,   \* FFTOcean::_render_fft_ocean_descriptor_sets
    acc_time,                   \* FFTOcean::_acc_time, in twentieths of a second
    caustic_index,              \* FFTOcean::_caustic_index
    ocean_pc                    \* "running", or "remainder_by_zero" after that panic

postProcessInputs == << image_mip_levels, image_layers >>

oceanVars == << render_fft_ocean_descriptor_sets, acc_time, caustic_index, ocean_pc >>

postProcessVars == << postProcessInputs, pass_bindings, mip_descriptor_sets,
                      fft_wave_bindings, fft_passes,
                      current_ssr_resolved, previous_ssr_resolved, ssr_update_count,
                      oceanVars >>

\* what the numerical functions are called with and what they return
VARIABLES
    num_pc,                     \* which function has run ("start": none yet)
    texture_create_info,        \* the TextureCreateInfo given to create_render_target
    created_texture,            \* the TextureData it returns
    dispatch_group,             \* FFTOcean::_fft_a_generate_mips_dispatch_group_x, _y
    generate_mips_layers,       \* the layers of _fft_a_generate_mips_descriptor_sets
    dispatched,                 \* per layer, the group counts of its dispatches
    overflow_checks,            \* the build's -C overflow-checks (on in debug builds)
    spectrum_x,                 \* generate_waves_spectrum: x of the next iteration
    spectrum_y,                 \* y of the next iteration (FFT_SIZE: the loops are over)
    spectrum_index,             \* i and j of the last iteration, as 16-bit halves
    fft_seed,                   \* FFTOcean::_fft_seed
    arithmetic_overflow         \* a u32 operation of the last iteration left 0..2^32-1

spectrumVars == << overflow_checks, spectrum_x, spectrum_y, spectrum_index, fft_seed,
                   arithmetic_overflow >>

numericVars == << num_pc, texture_create_info, created_texture,
                  dispatch_group, generate_mips_layers, dispatched, spectrumVars >>

\* the event loop of run_application and what its handlers find
VARIABLES
    target_os,                  \* "android" or "other": the build's cfg(target_os)
    need_initialize,
    maybe_application_data,     \* maybe_application_data, maybe_renderer_data, ..:
                                \* "none", "live" or "terminated"
    control_flow,               \* "poll", "exit", or "panicked" after an unwrap of None
    key_escape_pressed,         \* KeyboardInputData: Escape is among the pressed keys
    mouse_btn_r_pressed,        \* MouseInputData: the right button is down
    dereferenced                \* what the last handler found behind the Options it
                                \* unwrapped ("nothing": it unwrapped none)

eventVars == << target_os, need_initialize, maybe_application_data, control_flow,
                key_escape_pressed, mouse_btn_r_pressed, dereferenced >>

auxVars == << recordVars, postProcessVars, numericVars, eventVars >>

vars == << rendererVars, auxVars >>

(* ---------------------------------------------------------------------- *)
(* Render-target registry                                                  *)
(* ---------------------------------------------------------------------- *)
\* the _texture_format of each entry of get_render_target_create_infos;
\* hdr_texture_create_info carries R16G16B16A16_SFLOAT
texture_format(name) ==
    CASE name \in { "SceneDepth", "Shadow" } -> "D32_SFLOAT"
      [] name = "HierarchicalMinZ" -> "R32_SFLOAT"
      [] name \in { "BackBuffer", "BackBufferCopy", "SceneAlbedo",
                    "SceneMaterial", "SceneNormal" } -> "R8G8B8A8_UNORM"
      [] name = "SceneVelocity" -> "R16G16_SFLOAT"
      [] name \in { "SSAO", "SSAOTemp" } -> "R16_SFLOAT"
      [] OTHER -> "R16G16B16A16_SFLOAT"

\* the _texture_layer of each entry: the two FFT array textures name their
\* layers, every other entry has the single layer of a non-cube view
texture_layer(name) ==
    IF name \in { "FFT_A", "FFT_B" } THEN FFT_LAYER_COUNT ELSE 1

\* the _texture_depth of each entry: the default 1, but for the 3D texture
texture_depth(name) ==
    IF name = "FFT_SLOPE_VARIANCE" THEN N_SLOPE_VARIANCE ELSE 1

\* the _enable_mipmap of each entry: the default of TextureCreateInfo is
\* true and no entry turns it off
enable_mipmap(name) == TRUE

\* one entry of the list built by get_render_target_create_infos
TextureCreateInfo(name, width, height) ==
    [ texture_name |-> name, texture_width |-> width,
      texture_height |-> height, texture_depth |-> texture_depth(name),
      texture_layer |-> texture_layer(name),
      texture_format |-> texture_format(name),
      enable_mipmap |-> enable_mipmap(name) ]

\* the create infos with every target sized by the window
window_sized_create_infos(extent) ==
    [ n \in 1 .. (Len(RenderTargetType) - 1) |->
        TextureCreateInfo(RenderTargetType[n], extent[1], extent[2]) ]

get_render_target_create_infos(extent) ==
    LET window_width == extent[1]
        window_height == extent[2]
    IN << TextureCreateInfo("SceneColor", window_width, window_height),
          TextureCreateInfo("SceneColorCopy", window_width, window_height),
          TextureCreateInfo("SceneDepth", window_width, window_height),
          TextureCreateInfo("HierarchicalMinZ", window_width, window_height),
          TextureCreateInfo("BackBuffer", window_width, window_height),
          TextureCreateInfo("BackBufferCopy", window_width, window_height),
          TextureCreateInfo("SceneAlbedo", window_width, window_height),
          TextureCreateInfo("SceneMaterial", window_width, window_height),
          TextureCreateInfo("SceneNormal", window_width, window_height),
          TextureCreateInfo("SceneVelocity", window_width, window_height),
          TextureCreateInfo("TAAResolve", window_width, window_height),
          TextureCreateInfo("Bloom0", window_width \div 2, window_height \div 2),
          TextureCreateInfo("BloomTemp0", window_width \div 2, window_height \div 2),
          TextureCreateInfo("LightShaft", window_width \div 2, window_height \div 2),
          TextureCreateInfo("SSAO", window_width \div 2, window_height \div 2),
          TextureCreateInfo("SSAOTemp", window_width \div 2, window_height \div 2),
          TextureCreateInfo("Shadow", SHADOW_MAP_SIZE, SHADOW_MAP_SIZE),
          TextureCreateInfo("SSR", window_width \div 4, window_height \div 4),
          TextureCreateInfo("SSRResolved", window_width \div 4, window_height \div 4),
          TextureCreateInfo("SSRResolvedPrev", window_width \div 4, window_height \div 4),
          TextureCreateInfo("FFT_A", FFT_SIZE, FFT_SIZE),
          TextureCreateInfo("FFT_B", FFT_SIZE, FFT_SIZE),
          TextureCreateInfo("FFT_SLOPE_VARIANCE", N_SLOPE_VARIANCE, N_SLOPE_VARIANCE) >>

\* floor(log2(n)) of a number below 2^31, 0 for n = 0
Log2Floor(n) ==
    IF n = 0 THEN 0
    ELSE CHOOSE k \in 0 .. 30 : 2 ^ k <= n /\ n < 2 ^ (k + 1)

\* `max_size as f32`: the nearest number with 24 significant bits, a tie going
\* to the one whose last bit is 0 (for n below 2^30)
u32_as_f32(n) ==
    LET k == Log2Floor(n)
        unit == 2 ^ (k - 23)
        q == n \div unit
        r == n % unit
        up == 2 * r > unit \/ (2 * r = unit /\ q % 2 = 1)
    IN IF k < 24 THEN n ELSE (IF up THEN q + 1 ELSE q) * unit

\* `max_size.log2().floor() as u32`: the logarithm of the converted number;
\* the cast of the negative infinity of log2(0) saturates at 0
f32_log2_floor(max_size) == Log2Floor(u32_as_f32(max_size))

\* the logarithms of the image sizes up to MaxImageSize, tabulated
Log2FloorOf == [ n \in 0 .. MaxImageSize |-> f32_log2_floor(n) ]

\* texture::calc_mip_levels
calc_mip_levels(image_width, image_height, image_depth) ==
    LET wh == IF image_width > image_height THEN image_width ELSE image_height
        max_size == IF wh > image_depth THEN wh ELSE image_depth
    IN IF max_size \in DOMAIN Log2FloorOf
       THEN Log2FloorOf[max_size] + 1
       ELSE f32_log2_floor(max_size) + 1

\* texture::create_render_target: a new GPU texture for one create info
create_render_target(info, gen) ==
    [ kind |-> info.texture_name, gen |-> gen,
      format |-> info.texture_format,
      width |-> info.texture_width, height |-> info.texture_height,
      depth |-> info.texture_depth, layer |-> info.texture_layer,
      mip_levels |-> IF info.enable_mipmap
                     THEN calc_mip_levels(info.texture_width,
                                          info.texture_height,
                                          info.texture_depth)
                     ELSE 1 ]

\* the loop of create_render_targets over the first n create infos; st has
\* the fields map (_render_target_data_map) and live (the device's textures)
RECURSIVE CreateLoop(_, _, _, _)
CreateLoop(infos, n, gen, st) ==
    IF n = 0 THEN st
    ELSE LET prev == CreateLoop(infos, n - 1, gen, st)
             texture_data == create_render_target(infos[n], gen)
         IN [ prev EXCEPT !.map[infos[n].texture_name] = texture_data,
                          !.live = @ \cup { texture_data } ]

create_render_targets(st, extent, gen) ==
    LET infos == get_render_target_create_infos(extent)
    IN CreateLoop(infos, Len(infos), gen, st)

\* the map cleared without destroying its textures
clear_render_targets(st) ==
    [ st EXCEPT !.map = [ k \in RenderTargetKinds |-> NoTexture ] ]

\* destroy_render_targets: every value of the map is destroyed, the map cleared
destroy_render_targets(st) ==
    [ st EXCEPT !.map = [ k \in RenderTargetKinds |-> NoTexture ],
                !.live = @ \ { st.map[k] : k \in RenderTargetKinds } ]

(* ---------------------------------------------------------------------- *)
(* Framebuffers and descriptor sets built against the render targets       *)
(* ---------------------------------------------------------------------- *)
NoBinding == [ target |-> "None", gen |-> -1 ]

\* get_framebuffer_data_create_info of each pass: the render target attached
FramebufferTarget ==
    [ render_ssao |-> "SSAO", render_motion_blur |-> "SceneColorCopy" ]
\* a sampled render target of each pass's descriptor set
DescriptorInput ==
    [ render_ssao |-> "SceneDepth", render_motion_blur |-> "SceneVelocity" ]
\* FFTOcean::prepare_framebuffer_and_descriptors
FftFramebufferTarget ==
    [ fft_variance |-> "FFT_SLOPE_VARIANCE", fft_wave_x_fft_a |-> "FFT_A",
      fft_wave_x_fft_b |-> "FFT_B" ]

\* a framebuffer or descriptor set referring to the texture currently
\* registered for `kind`
BindTo(map, kind) == [ target |-> kind, gen |-> map[kind].gen ]

load_graphics_datas(map) ==
    [ fbs |-> [ n \in DOMAIN FramebufferTarget |-> BindTo(map, FramebufferTarget[n]) ],
      dss |-> [ n \in DOMAIN DescriptorInput |-> BindTo(map, DescriptorInput[n]) ] ]

unload_graphics_datas ==
    [ fbs |-> [ n \in DOMAIN FramebufferTarget |-> NoBinding ],
      dss |-> [ n \in DOMAIN DescriptorInput |-> NoBinding ] ]

initialize_scene_graphics_data(map) ==
    [ n \in DOMAIN FftFramebufferTarget |-> BindTo(map, FftFramebufferTarget[n]) ]

destroy_scene_graphics_data ==
    [ n \in DOMAIN FftFramebufferTarget |-> NoBinding ]

(* ---------------------------------------------------------------------- *)
(* Initial state: after create_renderer_data / initialize_renderer and the *)
(* first-event initialisation of run_application                           *)
(* ---------------------------------------------------------------------- *)
InitialTargets ==
    create_render_targets(
        [ map |-> [ k \in RenderTargetKinds |-> NoTexture ], live |-> {} ],
        initial_window_size, 0)

\* the flags of run_application once the first event has been handled
ApplicationRunning ==
    /\ initialize_done = TRUE
    /\ run_application = TRUE

\* what create_renderer_data, initialize_resources,
\* prepare_framebuffer_and_descriptors and initialize_scene_graphics_data build
RendererDataInit ==
    /\ render_target_data_map = InitialTargets.map
    /\ live_textures = InitialTargets.live
    /\ texture_gen = 1
    /\ framebuffer_datas = load_graphics_datas(InitialTargets.map).fbs
    /\ descriptor_sets = load_graphics_datas(InitialTargets.map).dss
    /\ fft_framebuffers = initialize_scene_graphics_data(InitialTargets.map)
    /\ swapchain_extent = initial_window_size
    /\ need_recreate_swapchain = FALSE

\* the device, the presentation engine and the frame loop at rest
FrameLoopInit ==
    /\ pc = "idle"
    /\ window_size = initial_window_size
    /\ frame_index = 0
    /\ swapchain_index = 0
    /\ frame_fences \in { [ k \in FRAME_INDICES |-> b ] : b \in BOOLEAN }
    /\ image_available_semaphores = [ k \in FRAME_INDICES |-> FALSE ]
    /\ render_finished_semaphores = [ k \in FRAME_INDICES |-> FALSE ]
    /\ command_buffers = [ i \in SWAPCHAIN_IMAGE_INDICES |-> "initial" ]
    /\ gpu_queue = << >>
    /\ gpu_executing = FALSE
    /\ cpu_writing = NoImage
    /\ img_acquired = [ i \in SWAPCHAIN_IMAGE_INDICES |-> FALSE ]
    /\ img_pe = [ i \in SWAPCHAIN_IMAGE_INDICES |-> "none" ]
    /\ img_present = [ i \in SWAPCHAIN_IMAGE_INDICES |-> "none" ]
    /\ img_pe_sem = [ i \in SWAPCHAIN_IMAGE_INDICES |-> NoSlot ]
    /\ img_pending_sem = [ i \in SWAPCHAIN_IMAGE_INDICES |-> NoSlot ]
    /\ fence_observed = [ k \in FRAME_INDICES |-> FALSE ]
    /\ cb_last_slot = [ i \in SWAPCHAIN_IMAGE_INDICES |-> NoSlot ]
    /\ cb_pending = [ i \in SWAPCHAIN_IMAGE_INDICES |-> FALSE ]
    /\ acquire_sem = NoSlot
    /\ acquire_result = "none"
    /\ present_result = "none"
    /\ recorded_this_tick = FALSE
    /\ flag_at_top = FALSE
    /\ recreated_this_tick = 0
    /\ event_since_clear = FALSE
    /\ recreate_log = << >>
    /\ frames_rendered = 0
    /\ camera_aspect = initial_window_size

RendererInit ==
    /\ ApplicationRunning
    /\ RendererDataInit
    /\ FrameLoopInit

\* nothing has been handed to the recording functions
RecordIdle ==
    /\ rec_pc = "idle"
    /\ static_render_elements = << >>
    /\ skeletal_render_elements = << >>
    /\ debug_render_target = "BackBuffer"
    /\ debug_commands = 0
    /\ effect_render_group = << >>
    /\ allocated_emitters = << >>
    /\ allocated_emitter_count = 0
    /\ allocated_particle_count = 0
    /\ recorded = << >>

\* the features a pass is rendered for with a framebuffer and a descriptor set
\* of its own, and the features that hold a descriptor set per mip level
PassFeatures == { "bloom_downsample", "bloom_temp", "ssao_blur", "ssr_resolve",
                  "post_process_bloom_downsample", "post_process_bloom_temp" }
MipFeatures == { "hierachical_min_z", "scene_color_downsampling", "fft_a_generate_mips" }

\* no post-process feature is initialised
PostProcessIdle ==
    /\ image_mip_levels = 1
    /\ image_layers = 1
    /\ pass_bindings = [ f \in PassFeatures |-> << >> ]
    /\ mip_descriptor_sets = [ f \in MipFeatures |-> << >> ]
    /\ fft_wave_bindings = << >>
    /\ fft_passes = << >>
    /\ current_ssr_resolved = "SSRResolved"
    /\ previous_ssr_resolved = "SSRResolvedPrev"
    /\ ssr_update_count = 0
    /\ render_fft_ocean_descriptor_sets = << >>
    /\ acc_time = 0
    /\ caustic_index = 0
    /\ ocean_pc = "running"

\* a u32 given by its upper and lower 16 bits, and whether the operation that
\* gave it left the range of u32
U32(overflow, hi, lo) == [ overflow |-> overflow, hi |-> hi, lo |-> lo ]

\* generate_waves_spectrum is not running
SpectrumIdle ==
    /\ overflow_checks = FALSE
    /\ spectrum_x = 0
    /\ spectrum_y = FFT_SIZE
    /\ spectrum_index = << U32(FALSE, 0, 0), U32(FALSE, 0, 0) >>
    /\ fft_seed = DEFAULT_FFT_SEED
    /\ arithmetic_overflow = FALSE

\* no numerical function is under examination
NumericIdle ==
    /\ num_pc = "idle"
    /\ texture_create_info = TextureCreateInfo("None", 1, 1)
    /\ created_texture = NoTexture
    /\ dispatch_group = << 1, 1 >>
    /\ generate_mips_layers = 0
    /\ dispatched = << >>
    /\ SpectrumIdle

\* the event loop after its first event, nothing unwrapped since
EventIdle ==
    /\ target_os = "other"
    /\ need_initialize = FALSE
    /\ maybe_application_data = "live"
    /\ control_flow = "poll"
    /\ key_escape_pressed = FALSE
    /\ mouse_btn_r_pressed = FALSE
    /\ dereferenced = "nothing"

AuxIdle == RecordIdle /\ PostProcessIdle /\ NumericIdle /\ EventIdle

Init == RendererInit /\ AuxIdle


(* ---------------------------------------------------------------------- *)
(* Device and presentation engine                                          *)
(* ---------------------------------------------------------------------- *)
\* vkDeviceWaitIdle returns: no submission and no queued present operation
\* is outstanding on any queue
DeviceIdle ==
    /\ gpu_queue = << >>
    /\ \A i \in SWAPCHAIN_IMAGE_INDICES : img_present[i] = "none"

\* events that lead to one more recreation stay within MaxRecreate
CanRecreate == need_recreate_swapchain \/ texture_gen <= MaxRecreate

\* the GPU starts the oldest submission once its wait semaphore is signaled
GpuBegin ==
    /\ gpu_queue # << >>
    /\ ~gpu_executing
    /\ image_available_semaphores[Head(gpu_queue).wait]
    /\ image_available_semaphores' =
           [ image_available_semaphores EXCEPT ![Head(gpu_queue).wait] = FALSE ]
    /\ gpu_executing' = TRUE
    /\ UNCHANGED << pc, appVars, frame_index, swapchain_index,
                    need_recreate_swapchain, swapchain_extent, frame_fences,
                    render_finished_semaphores, command_buffers, resourceVars,
                    gpu_queue, cpu_writing, peVars, fence_observed,
                    cb_last_slot, cb_pending, acquire_sem, acquire_result,
                    present_result, recorded_this_tick, event_since_clear,
                    tickVars >>
    /\ UNCHANGED << frames_rendered, camera_aspect, auxVars >>

\* the GPU completes the oldest submission and signals what the submit named
GpuFinish ==
    /\ gpu_queue # << >>
    /\ gpu_executing
    /\ LET done == Head(gpu_queue)
       IN /\ render_finished_semaphores' =
                 [ render_finished_semaphores EXCEPT ![done.signal] = TRUE ]
          /\ frame_fences' =
                 IF done.fence = NoSlot THEN frame_fences
                 ELSE [ frame_fences EXCEPT ![done.fence] = TRUE ]
          /\ command_buffers' =
                 IF command_buffers[done.cb] = "pending"
                 THEN [ command_buffers EXCEPT ![done.cb] = "executable" ]
                 ELSE command_buffers
    /\ gpu_queue' = Tail(gpu_queue)
    /\ gpu_executing' = FALSE
    /\ UNCHANGED << pc, appVars, frame_index, swapchain_index,
                    need_recreate_swapchain, swapchain_extent,
                    image_available_semaphores, resourceVars, cpu_writing,
                    peVars, fence_observed, cb_last_slot, cb_pending,
                    acquire_sem, acquire_result, present_result,
                    recorded_this_tick, event_since_clear, tickVars >>
    /\ UNCHANGED << frames_rendered, camera_aspect, auxVars >>

\* the engine's release of image i fires the signal an early acquire left pending
ReleaseSignal(sems, i) ==
    IF img_pending_sem[i] = NoSlot THEN sems
    ELSE [ sems EXCEPT ![img_pending_sem[i]] = TRUE ]

\* a queued present starts once the semaphore it waits on is signaled
PresentBegin(i) ==
    /\ img_present[i] = "queued"
    /\ img_pe[i] = "none"
    /\ render_finished_semaphores[img_pe_sem[i]]
    /\ render_finished_semaphores' =
           [ render_finished_semaphores EXCEPT ![img_pe_sem[i]] = FALSE ]
    /\ img_pe' = [ img_pe EXCEPT ![i] = "presenting" ]
    /\ img_present' = [ img_present EXCEPT ![i] = "none" ]
    /\ UNCHANGED << pc, appVars, frame_index, swapchain_index,
                    need_recreate_swapchain, swapchain_extent, frame_fences,
                    image_available_semaphores, command_buffers, resourceVars,
                    gpuVars, cpu_writing, img_acquired, img_pe_sem,
                    img_pending_sem, fence_observed, cb_last_slot, cb_pending,
                    acquire_sem, acquire_result, present_result,
                    recorded_this_tick, event_since_clear, tickVars >>
    /\ UNCHANGED << frames_rendered, camera_aspect, auxVars >>

\* a present rejected as out of date still executes its semaphore wait; the
\* image is not shown
PresentReject(i) ==
    /\ img_present[i] = "rejected"
    /\ render_finished_semaphores[img_pe_sem[i]]
    /\ render_finished_semaphores' =
           [ render_finished_semaphores EXCEPT ![img_pe_sem[i]] = FALSE ]
    /\ img_present' = [ img_present EXCEPT ![i] = "none" ]
    /\ UNCHANGED << pc, appVars, frame_index, swapchain_index,
                    need_recreate_swapchain, swapchain_extent, frame_fences,
                    image_available_semaphores, command_buffers, resourceVars,
                    gpuVars, cpu_writing, img_acquired, img_pe, img_pe_sem,
                    img_pending_sem, fence_observed, cb_last_slot,
                    cb_pending, acquire_sem, acquire_result, present_result,
                    recorded_this_tick, event_since_clear, tickVars >>
    /\ UNCHANGED << frames_rendered, camera_aspect, auxVars >>

\* the engine stops reading a presented image
PresentRelease(i) ==
    /\ img_pe[i] = "presenting"
    /\ img_pe' = [ img_pe EXCEPT ![i] = "none" ]
    /\ image_available_semaphores' = ReleaseSignal(image_available_semaphores, i)
    /\ img_pending_sem' = [ img_pending_sem EXCEPT ![i] = NoSlot ]
    /\ UNCHANGED << pc, appVars, frame_index, swapchain_index,
                    need_recreate_swapchain, swapchain_extent, frame_fences,
                    render_finished_semaphores, command_buffers, resourceVars,
                    gpuVars, cpu_writing, img_acquired, img_present,
                    img_pe_sem, fence_observed, cb_last_slot, cb_pending,
                    acquire_sem, acquire_result, present_result,
                    recorded_this_tick, event_since_clear, tickVars >>
    /\ UNCHANGED << frames_rendered, camera_aspect, auxVars >>


(* ---------------------------------------------------------------------- *)
(* Swapchain recreation                                                    *)
(* ---------------------------------------------------------------------- *)
\* a swapchain created at half of the surface's size
recreate_swapchain_at_half_extent(r, size) ==
    [ r EXCEPT !.extent = << size[1] \div 2, size[2] \div 2 >>,
               !.log = Append(@, "recreate_swapchain") ]

\* RendererData::recreate_swapchain: the new swapchain takes the surface's
\* current size
recreate_swapchain(r, size) ==
    [ r EXCEPT !.extent = size, !.log = Append(@, "recreate_swapchain") ]

\* resize_window without the unload and reload of the graphics data
resize_window_keeping_graphics_datas(r, size, gen) ==
    LET waited == [ r EXCEPT !.log = Append(@, "device_wait_idle") ]
        destroyed == [ destroy_render_targets(waited)
                         EXCEPT !.log = Append(@, "destroy_render_targets") ]
        swapped == recreate_swapchain(destroyed, size)
    IN [ create_render_targets(swapped, swapped.extent, gen)
           EXCEPT !.log = Append(@, "create_render_targets") ]

\* RendererData::resize_window, from the return of device_wait_idle on;
\* r = [map, live, fbs, dss, extent, log]
resize_window(r, size, gen) ==
    LET waited == [ r EXCEPT !.log = Append(@, "device_wait_idle") ]
        unloaded == [ waited EXCEPT !.fbs = unload_graphics_datas.fbs,
                                    !.dss = unload_graphics_datas.dss,
                                    !.log = Append(@, "unload_graphics_datas") ]
        destroyed == [ destroy_render_targets(unloaded)
                         EXCEPT !.log = Append(@, "destroy_render_targets") ]
        swapped == recreate_swapchain(destroyed, size)
        created == [ create_render_targets(swapped, swapped.extent, gen)
                       EXCEPT !.log = Append(@, "create_render_targets") ]
    IN [ created EXCEPT !.fbs = load_graphics_datas(created.map).fbs,
                        !.dss = load_graphics_datas(created.map).dss,
                        !.log = Append(@, "load_graphics_datas") ]

\* run_application, MainEventsCleared: the top of the frame tick.  With
\* need_recreate_swapchain set, the scene, UI and font graphics data are
\* destroyed and resize_window is entered, where the thread waits for the
\* device to become idle.
MainEventsCleared ==
    /\ pc = "idle"
    /\ run_application
    /\ flag_at_top' = need_recreate_swapchain
    /\ recreated_this_tick' = 0
    /\ recorded_this_tick' = FALSE
    /\ IF need_recreate_swapchain
       THEN /\ fft_framebuffers' = destroy_scene_graphics_data
            /\ recreate_log' = << "destroy_scene_graphics_data",
                                  "destroy_ui_descriptor_sets",
                                  "destroy_font_descriptor_sets" >>
            /\ pc' = "resize_window"
       ELSE /\ UNCHANGED << fft_framebuffers, recreate_log >>
            /\ pc' = "render_scene"
    /\ UNCHANGED << appVars, frame_index, swapchain_index,
                    need_recreate_swapchain, swapchain_extent, syncVars,
                    command_buffers, render_target_data_map, framebuffer_datas,
                    descriptor_sets, live_textures, texture_gen, gpuVars,
                    cpu_writing, peVars, fence_observed, cb_last_slot,
                    cb_pending, acquire_sem, acquire_result, present_result,
                    event_since_clear >>
    /\ UNCHANGED << frames_rendered, camera_aspect, auxVars >>

\* resize_window: `self.device_wait_idle()`
ResizeWaitIdle == DeviceIdle

\* the flag left set
need_recreate_left_set == TRUE

\* run_application: `renderer_data.set_need_recreate_swapchain(false)`
need_recreate_after_resize == FALSE

\* device_wait_idle has returned: the rest of resize_window, then the
\* re-creation of the font, UI and scene graphics data and the clearing of
\* need_recreate_swapchain (application.rs)
ResizeWindow ==
    /\ pc = "resize_window"
    /\ ResizeWaitIdle
    /\ LET r == resize_window(
                    [ map |-> render_target_data_map, live |-> live_textures,
                      fbs |-> framebuffer_datas, dss |-> descriptor_sets,
                      extent |-> swapchain_extent, log |-> recreate_log ],
                    window_size, texture_gen)
       IN /\ render_target_data_map' = r.map
          /\ live_textures' = r.live
          /\ framebuffer_datas' = r.fbs
          /\ descriptor_sets' = r.dss
          /\ swapchain_extent' = r.extent
          /\ fft_framebuffers' = initialize_scene_graphics_data(r.map)
          /\ recreate_log' = r.log \o << "create_font_descriptor_sets",
                                         "create_ui_descriptor_sets",
                                         "initialize_scene_graphics_data",
                                         "set_need_recreate_swapchain_false" >>
    /\ texture_gen' = texture_gen + 1
    \* recreate_swapchain: new command buffers, new swapchain images
    /\ command_buffers' = [ i \in SWAPCHAIN_IMAGE_INDICES |-> "initial" ]
    /\ cb_last_slot' = [ i \in SWAPCHAIN_IMAGE_INDICES |-> NoSlot ]
    /\ cb_pending' = [ i \in SWAPCHAIN_IMAGE_INDICES |-> FALSE ]
    /\ img_acquired' = [ i \in SWAPCHAIN_IMAGE_INDICES |-> FALSE ]
    /\ img_pe' = [ i \in SWAPCHAIN_IMAGE_INDICES |-> "none" ]
    /\ img_present' = [ i \in SWAPCHAIN_IMAGE_INDICES |-> "none" ]
    /\ img_pe_sem' = [ i \in SWAPCHAIN_IMAGE_INDICES |-> NoSlot ]
    /\ img_pending_sem' = [ i \in SWAPCHAIN_IMAGE_INDICES |-> NoSlot ]
    \* the old swapchain's images are released: pending signals fire
    /\ image_available_semaphores' =
           [ k \in FRAME_INDICES |->
               \/ image_available_semaphores[k]
               \/ \E i \in SWAPCHAIN_IMAGE_INDICES : img_pending_sem[i] = k ]
    /\ need_recreate_swapchain' = need_recreate_after_resize
    /\ event_since_clear' = FALSE
    /\ recreated_this_tick' = recreated_this_tick + 1
    /\ pc' = "render_scene"
    /\ UNCHANGED << appVars, frame_index, swapchain_index, frame_fences,
                    render_finished_semaphores, gpuVars, cpu_writing,
                    fence_observed, acquire_sem, acquire_result,
                    present_result, recorded_this_tick, flag_at_top >>
    /\ UNCHANGED << frames_rendered, camera_aspect, auxVars >>

\* WindowEvent::Resized
Resized(size) ==
    /\ pc = "idle"
    /\ initialize_done
    /\ swapchain_extent # size => CanRecreate
    /\ window_size' = size
    /\ camera_aspect' = size
    /\ LET need_recreate_swapchain_ == swapchain_extent # size
       IN IF need_recreate_swapchain_
          THEN /\ need_recreate_swapchain' = TRUE
               /\ event_since_clear' = TRUE
          ELSE UNCHANGED << need_recreate_swapchain, event_since_clear >>
    /\ UNCHANGED << pc, initialize_done, run_application, frame_index,
                    swapchain_index, swapchain_extent, syncVars,
                    command_buffers, resourceVars, gpuVars, cpu_writing,
                    peVars, fence_observed, cb_last_slot, cb_pending,
                    acquire_sem, acquire_result, present_result,
                    recorded_this_tick, tickVars >>
    /\ UNCHANGED << frames_rendered, auxVars >>

(* ---------------------------------------------------------------------- *)
(* RendererData::render_scene and RendererData::present_swapchain          *)
(* ---------------------------------------------------------------------- *)
\* acquire_next_image hands out an image the application does not hold and
\* the engine has no unprocessed present request for
CanAcquire(i) == ~img_acquired[i] /\ img_present[i] = "none"

\* the semaphore given to acquire is signaled once the engine has released
\* the image: at once, or when the presentation still running ends
AcquireSemaphores(i) ==
    IF img_pe[i] = "none"
    THEN [ image_available_semaphores EXCEPT ![frame_index] = TRUE ]
    ELSE image_available_semaphores

AcquirePending(i) ==
    IF img_pe[i] = "none" THEN img_pending_sem
    ELSE [ img_pending_sem EXCEPT ![i] = frame_index ]

\* acquire_next_image returns Ok((i, false)): the uploads and the recording
\* of command buffer i begin
AcquireOk(i) ==
    /\ pc = "render_scene"
    /\ CanAcquire(i)
    /\ image_available_semaphores' = AcquireSemaphores(i)
    /\ img_pending_sem' = AcquirePending(i)
    /\ img_acquired' = [ img_acquired EXCEPT ![i] = TRUE ]
    /\ swapchain_index' = i
    /\ acquire_sem' = frame_index
    /\ acquire_result' = "success"
    /\ present_result' = "none"
    /\ cpu_writing' = i
    /\ command_buffers' = [ command_buffers EXCEPT ![i] = "recording" ]
    /\ recorded_this_tick' = TRUE
    /\ pc' = "recording"
    /\ UNCHANGED << appVars, frame_index, need_recreate_swapchain,
                    swapchain_extent, frame_fences, render_finished_semaphores,
                    resourceVars, gpuVars, img_pe, img_present, img_pe_sem,
                    fence_observed, cb_last_slot, cb_pending,
                    event_since_clear, tickVars >>
    /\ UNCHANGED << frames_rendered, camera_aspect, auxVars >>

\* the slot left where it is
same_frame_index(index) == index

\* render_scene: `self._frame_index = (self._frame_index + 1) % MAX_FRAME_COUNT`
next_frame_index(index) == (index + 1) % MAX_FRAME_COUNT

\* one more render_scene call has returned
CountFrame == IF frames_rendered < MaxFrames THEN frames_rendered + 1 ELSE frames_rendered

\* acquire_next_image returns Ok((i, true)): nothing is recorded, submitted or
\* presented; render_scene sets need_recreate_swapchain and advances the slot
AcquireSuboptimal(i) ==
    /\ pc = "render_scene"
    /\ CanAcquire(i)
    /\ CanRecreate
    /\ image_available_semaphores' = AcquireSemaphores(i)
    /\ img_pending_sem' = AcquirePending(i)
    /\ img_acquired' = [ img_acquired EXCEPT ![i] = TRUE ]
    /\ swapchain_index' = i
    /\ acquire_sem' = frame_index
    /\ acquire_result' = "suboptimal"
    /\ present_result' = "suboptimal"
    /\ need_recreate_swapchain' = TRUE
    /\ event_since_clear' = TRUE
    /\ frame_index' = next_frame_index(frame_index)
    /\ frames_rendered' = CountFrame
    /\ pc' = "idle"
    /\ UNCHANGED << appVars, swapchain_extent, frame_fences,
                    render_finished_semaphores, command_buffers, resourceVars,
                    gpuVars, cpu_writing, img_pe, img_present, img_pe_sem,
                    fence_observed, cb_last_slot, cb_pending,
                    recorded_this_tick, tickVars >>
    /\ UNCHANGED << camera_aspect, auxVars >>

\* acquire_next_image returns Err(ERROR_OUT_OF_DATE_KHR): the unwrap panics
AcquireError ==
    /\ pc = "render_scene"
    /\ acquire_result' = "out_of_date"
    /\ pc' = "panicked"
    /\ UNCHANGED << appVars, frame_index, swapchain_index,
                    need_recreate_swapchain, swapchain_extent, syncVars,
                    command_buffers, resourceVars, gpuVars, cpu_writing,
                    peVars, fence_observed, cb_last_slot, cb_pending,
                    acquire_sem, present_result, recorded_this_tick,
                    event_since_clear, tickVars >>
    /\ UNCHANGED << frames_rendered, camera_aspect, auxVars >>

\* present_swapchain: `let waiting_for_fence = false;`
waiting_for_fence == FALSE

\* end_command_buffer, then present_swapchain up to queue_submit: the slot's
\* fence is reset, the command buffer submitted
QueueSubmit ==
    /\ pc = "recording"
    /\ Len(gpu_queue) < MaxGpuQueue
    /\ frame_fences' = [ frame_fences EXCEPT ![frame_index] = FALSE ]
    /\ fence_observed' = [ fence_observed EXCEPT ![frame_index] = FALSE ]
    /\ gpu_queue' = Append(gpu_queue,
                       [ cb |-> swapchain_index,
                         wait |-> frame_index,
                         signal |-> frame_index,
                         fence |-> IF waiting_for_fence THEN frame_index ELSE NoSlot ])
    /\ command_buffers' = [ command_buffers EXCEPT ![swapchain_index] = "pending" ]
    /\ cb_last_slot' = [ cb_last_slot EXCEPT ![swapchain_index] = frame_index ]
    /\ cb_pending' = [ cb_pending EXCEPT ![swapchain_index] = TRUE ]
    /\ cpu_writing' = NoImage
    /\ pc' = "submitted"
    /\ UNCHANGED << appVars, frame_index, swapchain_index,
                    need_recreate_swapchain, swapchain_extent,
                    image_available_semaphores, render_finished_semaphores,
                    resourceVars, gpu_executing, peVars, acquire_sem,
                    acquire_result, present_result, recorded_this_tick,
                    event_since_clear, tickVars >>
    /\ UNCHANGED << frames_rendered, camera_aspect, auxVars >>

\* present_swapchain: queue_submit fails and `.expect("vkQueueSubmit failed!")`
\* panics
QueueSubmitError ==
    /\ pc = "recording"
    /\ pc' = "panicked"
    /\ UNCHANGED << appVars, frame_index, swapchain_index,
                    need_recreate_swapchain, swapchain_extent, syncVars,
                    command_buffers, resourceVars, gpuVars, cpu_writing,
                    peVars, fence_observed, cb_last_slot, cb_pending,
                    acquire_sem, acquire_result, present_result,
                    recorded_this_tick, event_since_clear, tickVars >>
    /\ UNCHANGED << frames_rendered, camera_aspect, auxVars >>

\* present_swapchain: the optional fence wait, then queue_present of image
\* swapchain_index waiting on the slot's render-finished semaphore
QueuePresent(result) ==
    /\ pc = "submitted"
    /\ waiting_for_fence => frame_fences[frame_index]
    /\ result # "success" => CanRecreate
    /\ fence_observed' = [ fence_observed EXCEPT ![frame_index] = waiting_for_fence ]
    /\ img_acquired' = [ img_acquired EXCEPT ![swapchain_index] = FALSE ]
    /\ img_present' = [ img_present EXCEPT ![swapchain_index] =
                          IF result \in { "out_of_date", "surface_lost" }
                          THEN "rejected" ELSE "queued" ]
    /\ img_pe_sem' = [ img_pe_sem EXCEPT ![swapchain_index] = frame_index ]
    /\ present_result' = result
    /\ pc' = "wait_idle"
    /\ UNCHANGED << appVars, frame_index, swapchain_index,
                    need_recreate_swapchain, swapchain_extent, syncVars,
                    command_buffers, resourceVars, gpuVars, cpu_writing,
                    img_pe, img_pending_sem, cb_last_slot, cb_pending,
                    acquire_sem, acquire_result, recorded_this_tick,
                    event_since_clear, tickVars >>
    /\ UNCHANGED << frames_rendered, camera_aspect, auxVars >>

\* render_scene: only ERROR_OUT_OF_DATE_KHR and SUBOPTIMAL_KHR set the flag; any
\* other present result is dropped
recreate_after_present(result) == result \in { "out_of_date", "suboptimal" }

\* the wait left out
SkipWaitIdle == TRUE

\* present_swapchain: `self._device.device_wait_idle()` after queue_present
PresentWaitIdle == DeviceIdle

\* device_wait_idle has returned; the rest of render_scene
EndFrame ==
    /\ pc = "wait_idle"
    /\ PresentWaitIdle
    /\ cb_pending' = [ i \in SWAPCHAIN_IMAGE_INDICES |->
                         /\ cb_pending[i]
                         /\ \E n \in 1 .. Len(gpu_queue) : gpu_queue[n].cb = i ]
    /\ IF recreate_after_present(present_result)
       THEN /\ need_recreate_swapchain' = TRUE
            /\ event_since_clear' = TRUE
       ELSE UNCHANGED << need_recreate_swapchain, event_since_clear >>
    /\ frame_index' = next_frame_index(frame_index)
    /\ frames_rendered' = CountFrame
    /\ pc' = "idle"
    /\ UNCHANGED << appVars, swapchain_index, swapchain_extent, syncVars,
                    command_buffers, resourceVars, gpuVars, cpu_writing,
                    peVars, fence_observed, cb_last_slot, acquire_sem,
                    acquire_result, present_result, recorded_this_tick,
                    tickVars >>
    /\ UNCHANGED << camera_aspect, auxVars >>

(* ---------------------------------------------------------------------- *)
(* Specification                                                           *)
(* ---------------------------------------------------------------------- *)
\* what queue_present returns: Ok(false), Ok(true), Err(ERROR_OUT_OF_DATE_KHR)
\* and, of the other errors, Err(ERROR_SURFACE_LOST_KHR)
PresentResults == { "success", "suboptimal", "out_of_date", "surface_lost" }

Next ==
    \/ MainEventsCleared
    \/ ResizeWindow
    \/ \E size \in WindowSizes : Resized(size)
    \/ \E i \in SWAPCHAIN_IMAGE_INDICES : AcquireOk(i)
    \/ \E i \in SWAPCHAIN_IMAGE_INDICES : AcquireSuboptimal(i)
    \/ AcquireError
    \/ QueueSubmit
    \/ QueueSubmitError
    \/ \E result \in PresentResults : QueuePresent(result)
    \/ EndFrame
    \/ GpuBegin
    \/ GpuFinish
    \/ \E i \in SWAPCHAIN_IMAGE_INDICES : PresentBegin(i)
    \/ \E i \in SWAPCHAIN_IMAGE_INDICES : PresentReject(i)
    \/ \E i \in SWAPCHAIN_IMAGE_INDICES : PresentRelease(i)

Spec == Init /\ [][Next]_vars

(* ---------------------------------------------------------------------- *)
(* Frame synchronisation                                                   *)
(* ---------------------------------------------------------------------- *)
InFlight(i) == \E n \in 1 .. Len(gpu_queue) : gpu_queue[n].cb = i

NoSharedImageIndexInFlight ==
    /\ \A m, n \in 1 .. Len(gpu_queue) :
           m # n => gpu_queue[m].cb # gpu_queue[n].cb
    /\ cpu_writing # NoImage => ~InFlight(cpu_writing)

\* the CPU uploads into the replica of an index an earlier frame used, whose
\* image the engine is still showing
UploadWitness ==
    /\ cpu_writing # NoImage
    /\ cb_last_slot[cpu_writing] # NoSlot
    /\ img_pe[cpu_writing] = "presenting"

\* C4: at most MAX_FRAME_COUNT submissions are incomplete.
FramesInFlightBounded == Len(gpu_queue) <= MAX_FRAME_COUNT

\* a frame's submission is executing on the GPU while the CPU waits
InFlightWitness ==
    /\ Len(gpu_queue) = 1
    /\ gpu_executing
    /\ pc = "wait_idle"

\* C3: the submission of a frame waits on the image-available semaphore this
\* frame's acquire used and signals the render-finished semaphore its present
\* waits on, the present names the acquired image; the GPU never executes a
\* submission whose image the engine has not released, and the engine never
\* shows an image whose submission is incomplete.
SemaphoreChainOrdersImageUse ==
    /\ pc \in { "submitted", "wait_idle" } /\ gpu_queue # << >> =>
           LET last == gpu_queue[Len(gpu_queue)]
           IN /\ last.wait = acquire_sem
              /\ last.signal = frame_index
              /\ last.cb = swapchain_index
    /\ pc = "wait_idle" => img_pe_sem[swapchain_index] = frame_index
    /\ gpu_executing =>
           /\ img_pe[Head(gpu_queue).cb] = "none"
           /\ img_pending_sem[Head(gpu_queue).cb] = NoSlot
    /\ \A i \in SWAPCHAIN_IMAGE_INDICES :
           (img_pe[i] = "presenting" /\ img_present[i] = "none" /\ ~img_acquired[i])
               => ~InFlight(i)

(* ---------------------------------------------------------------------- *)
(* Swapchain recreation protocol                                           *)
(* ---------------------------------------------------------------------- *)
DestroySteps ==
    { "destroy_scene_graphics_data", "destroy_ui_descriptor_sets",
      "destroy_font_descriptor_sets", "unload_graphics_datas",
      "destroy_render_targets" }

ProtocolSteps ==
    << "device_wait_idle", "destroy_render_targets", "recreate_swapchain",
       "create_render_targets", "load_graphics_datas",
       "set_need_recreate_swapchain_false" >>

\* C5: the steps of a recreation appear in the protocol's order, no destroy
\* step precedes the return of the idle wait, and while the thread waits for
\* the device nothing has been destroyed yet.
RecreationStepsOrdered ==
    /\ \A n \in 1 .. Len(recreate_log) :
           recreate_log[n] \in DestroySteps
               => \E m \in 1 .. (n - 1) : recreate_log[m] = "device_wait_idle"
    /\ \A a, b \in 1 .. Len(ProtocolSteps) :
           \A m, n \in 1 .. Len(recreate_log) :
               (a < b /\ recreate_log[m] = ProtocolSteps[a]
                      /\ recreate_log[n] = ProtocolSteps[b]) => m < n
    /\ pc = "resize_window" =>
           \A n \in DOMAIN fft_framebuffers : fft_framebuffers[n] # NoBinding

\* C6: an out-of-date or suboptimal report from acquire or present never
\* ends in a panic; the frame call returns with need_recreate_swapchain set,
\* and a frame whose acquire reported it has recorded nothing.
OutOfDateHandledWithoutPanic ==
    /\ pc # "panicked"
    /\ (pc = "idle" /\ ( \/ acquire_result \in { "suboptimal", "out_of_date" }
                         \/ present_result \in { "suboptimal", "out_of_date" } ))
           => need_recreate_swapchain
    /\ (pc = "idle" /\ acquire_result \in { "suboptimal", "out_of_date" })
           => ~recorded_this_tick

RenderingPcs == { "render_scene", "recording", "submitted", "wait_idle" }

\* C7: a frame whose present reported out-of-date leaves need_recreate_swapchain
\* set; the tick that finds the flag set runs the recreation exactly once
\* before it renders, a tick that finds it clear renders without recreation;
\* the flag is clear while a tick renders and is set only by an out-of-date,
\* suboptimal or window-size event that came after the last recreation.
RecreateOncePerEvent ==
    /\ (pc = "idle" /\ present_result = "out_of_date") => need_recreate_swapchain
    /\ pc \in RenderingPcs =>
           /\ recreated_this_tick = (IF flag_at_top THEN 1 ELSE 0)
           /\ (pc # "wait_idle" => ~need_recreate_swapchain)
    /\ need_recreate_swapchain => event_since_clear

\* the tick after an out-of-date present has run the recreation and is about
\* to render
RecreatedAfterOutOfDate ==
    /\ pc = "render_scene"
    /\ present_result = "out_of_date"
    /\ recreated_this_tick = 1
    /\ ~need_recreate_swapchain

Bindings ==
    { framebuffer_datas[n] : n \in DOMAIN framebuffer_datas }
        \cup { descriptor_sets[n] : n \in DOMAIN descriptor_sets }
        \cup { fft_framebuffers[n] : n \in DOMAIN fft_framebuffers }

FixedSizeTargetsUntouched ==
    [][ \A k \in FixedSizeKinds :
            render_target_data_map'[k] = render_target_data_map[k] ]_vars

\* C9, as the code has it: a resize destroys the textures of the fixed-size
\* kinds and creates new ones like all others, with the same width and height
\* whatever the new extent.
FixedSizeTargetsRecreatedSameSize ==
    [][ pc = "resize_window" /\ pc' = "render_scene" =>
            \A k \in FixedSizeKinds :
                /\ render_target_data_map[k] \notin live_textures'
                /\ render_target_data_map'[k] \in live_textures'
                /\ render_target_data_map'[k].gen # render_target_data_map[k].gen
                /\ render_target_data_map'[k].width = render_target_data_map[k].width
                /\ render_target_data_map'[k].height = render_target_data_map[k].height
      ]_vars

\* after a resize to another extent the shadow map has its fixed size
ResizedToOtherExtent ==
    /\ texture_gen >= 2
    /\ swapchain_extent # initial_window_size
    /\ render_target_data_map["SceneColor"].width = swapchain_extent[1]
    /\ render_target_data_map["Shadow"].width = SHADOW_MAP_SIZE
    /\ render_target_data_map["Shadow"].gen = texture_gen - 1

LiveOfKind(kind) == { t \in live_textures : t.kind = kind }

\* C10, as the claim states it: every value of RenderTargetType has exactly
\* one live texture in the table.
EveryKindHasOneTexture ==
    \A kind \in RenderTargetKinds :
        /\ render_target_data_map[kind] \in live_textures
        /\ Cardinality(LiveOfKind(kind)) = 1

\* C10, as the code has it: every value of RenderTargetType other than the
\* MaxBound sentinel has exactly one live texture, the one in the table;
\* MaxBound has none.
EveryKindButMaxBoundHasOneTexture ==
    /\ \A kind \in RenderTargetKinds \ { "MaxBound" } :
           /\ render_target_data_map[kind] \in live_textures
           /\ render_target_data_map[kind].kind = kind
           /\ LiveOfKind(kind) = { render_target_data_map[kind] }
    /\ render_target_data_map["MaxBound"] = NoTexture
    /\ LiveOfKind("MaxBound") = {}

\* the table is complete again after a resize
TableRebuilt ==
    /\ texture_gen >= 2
    /\ pc = "idle"
    /\ render_target_data_map["BackBuffer"].gen = texture_gen - 1
    /\ Cardinality(live_textures) = Len(RenderTargetType) - 1

(* ---------------------------------------------------------------------- *)
(* Frame-slot rotation                                                     *)
(* ---------------------------------------------------------------------- *)
\* C11: every return of render_scene advances the frame slot to
\* (index + 1) mod MAX_FRAME_COUNT: the n-th frame since initialisation runs on
\* slot n mod MAX_FRAME_COUNT (0, 1, 0 for the first three), and after
\* MAX_FRAME_COUNT frames the slot is the initial one again.
FrameSlotRotates ==
    /\ frames_rendered < MaxFrames =>
           frame_index = frames_rendered % MAX_FRAME_COUNT
    /\ frames_rendered = MAX_FRAME_COUNT => frame_index = 0
    /\ frame_index \in FRAME_INDICES

\* the third frame since initialisation is being recorded, on slot 0 again
ThirdFrameOnFirstSlot ==
    /\ frames_rendered = 2
    /\ pc = "recording"
    /\ frame_index = 0

(* ---------------------------------------------------------------------- *)
(* Recording a frame: render_scene and the passes it calls                 *)
(* ---------------------------------------------------------------------- *)
\* how many render elements of one skinning type a scene holds at most
MaxDraws == 2
\* the material instances render elements refer to
MaterialInstances == { "mi_a", "mi_b", "mi_c" }
\* the debug targets tried ("BackBuffer" switches the debug view off)
DebugTargets == { "BackBuffer", "Shadow" }
RenderObjectTypes == { "Static", "Skeletal" }

RenderElementLists ==
    UNION { [ 1 .. n -> MaterialInstances ] : n \in 0 .. MaxDraws }

\* one call made on the command buffer (or, for uploads, on a uniform buffer)
Cmd(op, arg) == [ op |-> op, arg |-> arg ]

\* RendererData::render_pipeline: one full-screen pass
render_pipeline(name) ==
    << Cmd("begin_render_pass_pipeline", name),
       Cmd("bind_descriptor_sets", name),
       Cmd("draw_elements", "quad"),
       Cmd("end_render_pass", name) >>

shadow_pass_name(render_object_type) ==
    IF render_object_type = "Static" THEN "render_pass_static_shadow"
    ELSE "render_pass_skeletal_shadow"

shadow_material_instance_name(render_object_type) ==
    IF render_object_type = "Static" THEN "render_static_shadow"
    ELSE "render_skeletal_shadow"

opaque_pass_name(render_object_type) ==
    IF render_object_type = "Static" THEN "render_pass_static_opaque"
    ELSE "render_pass_skeletal_opaque"

\* the draw loop of render_shadow: push constants and a draw per element
RECURSIVE ShadowLoop(_, _)
ShadowLoop(render_elements, index) ==
    IF index > Len(render_elements) THEN << >>
    ELSE << Cmd("upload_push_constant_data", index), Cmd("draw_elements", index) >>
         \o ShadowLoop(render_elements, index + 1)

\* RendererData::render_shadow
render_shadow(render_object_type, render_elements) ==
    IF Len(render_elements) = 0 THEN << >>
    ELSE << Cmd("begin_render_pass_pipeline", shadow_pass_name(render_object_type)),
            Cmd("bind_descriptor_sets", shadow_material_instance_name(render_object_type)) >>
         \o ShadowLoop(render_elements, 1)
         \o << Cmd("end_render_pass", shadow_pass_name(render_object_type)) >>

\* the draw loop of render_solid: the first element begins the pass (after the
\* bone matrices of a skeletal object are uploaded), every element binds its
\* own pipeline binding, pushes its constants and draws
RECURSIVE SolidLoop(_, _, _)
SolidLoop(render_object_type, render_elements, index) ==
    IF index > Len(render_elements) THEN << >>
    ELSE (IF index = 1
          THEN (IF render_object_type = "Skeletal"
                THEN << Cmd("upload_buffer_data_infos", "BoneMatrices"),
                        Cmd("upload_buffer_data_infos_offset", "BoneMatrices") >>
                ELSE << >>)
               \o << Cmd("begin_render_pass_pipeline", opaque_pass_name(render_object_type)) >>
          ELSE << >>)
         \o << Cmd("bind_descriptor_sets", render_elements[index]),
               Cmd("upload_push_constant_data", index),
               Cmd("draw_elements", index) >>
         \o SolidLoop(render_object_type, render_elements, index + 1)

\* a draw loop that binds a descriptor set only where the pipeline binding
\* differs from that of the element before
RECURSIVE SolidLoopBindOnChange(_, _, _)
SolidLoopBindOnChange(render_object_type, render_elements, index) ==
    IF index > Len(render_elements) THEN << >>
    ELSE (IF index = 1
          THEN (IF render_object_type = "Skeletal"
                THEN << Cmd("upload_buffer_data_infos", "BoneMatrices"),
                        Cmd("upload_buffer_data_infos_offset", "BoneMatrices") >>
                ELSE << >>)
               \o << Cmd("begin_render_pass_pipeline", opaque_pass_name(render_object_type)),
                     Cmd("bind_descriptor_sets", render_elements[index]) >>
          ELSE IF render_elements[index] # render_elements[index - 1]
               THEN << Cmd("bind_descriptor_sets", render_elements[index]) >>
               ELSE << >>)
         \o << Cmd("upload_push_constant_data", index),
               Cmd("draw_elements", index) >>
         \o SolidLoopBindOnChange(render_object_type, render_elements, index + 1)

\* a render_solid that skips the bind of an unchanged pipeline binding
render_solid_bind_on_change(render_object_type, render_elements) ==
    IF Len(render_elements) = 0 THEN << >>
    ELSE SolidLoopBindOnChange(render_object_type, render_elements, 1)
         \o << Cmd("end_render_pass", opaque_pass_name(render_object_type)) >>

\* RendererData::render_solid
render_solid(render_object_type, render_elements) ==
    IF Len(render_elements) = 0 THEN << >>
    ELSE SolidLoop(render_object_type, render_elements, 1)
         \o << Cmd("end_render_pass", opaque_pass_name(render_object_type)) >>

\* RendererData::render_post_process
render_post_process ==
    render_pipeline("render_ssao")
    \o render_pipeline("composite_gbuffer")
    \o render_pipeline("render_motion_blur")

\* the debug view at the end of render_scene
render_debug(target) ==
    IF target # "BackBuffer"
    THEN << Cmd("begin_render_pass_pipeline", "render_debug"),
            Cmd("update_descriptor_set", target),
            Cmd("bind_descriptor_sets", "render_debug"),
            Cmd("draw_elements", "quad"),
            Cmd("end_render_pass", "render_debug") >>
    ELSE << >>

\* the uniform-buffer uploads at the top of render_scene
upload_constants ==
    << Cmd("upload_buffer_data_info", "SceneConstants"),
       Cmd("upload_buffer_data_info", "ViewConstants"),
       Cmd("upload_buffer_data_info", "LightConstants"),
       Cmd("upload_buffer_data_info", "SSAOConstants") >>

\* a render_scene that runs the post-process chain before the geometry
render_scene_post_process_first(static_elements, skeletal_elements, target) ==
    upload_constants
    \o << Cmd("begin_command_buffer", "") >>
    \o render_post_process
    \o render_shadow("Static", static_elements)
    \o render_shadow("Skeletal", skeletal_elements)
    \o render_solid("Static", static_elements)
    \o render_solid("Skeletal", skeletal_elements)
    \o render_pipeline("render_final")
    \o render_debug(target)
    \o << Cmd("end_command_buffer", "") >>

\* RendererData::render_scene, from the uploads to end_command_buffer
render_scene(static_elements, skeletal_elements, target) ==
    upload_constants
    \o << Cmd("begin_command_buffer", "") >>
    \o render_shadow("Static", static_elements)
    \o render_shadow("Skeletal", skeletal_elements)
    \o render_solid("Static", static_elements)
    \o render_solid("Skeletal", skeletal_elements)
    \o render_post_process
    \o render_pipeline("render_final")
    \o render_debug(target)
    \o << Cmd("end_command_buffer", "") >>

\* the pipeline an emitter's material instance draws with
effect_pipeline_data(material_instance) ==
    IF material_instance = "mi_c" THEN "pipeline_2" ELSE "pipeline_1"

\* the loop of render_effects: prev_pipeline_data and prev_pipeline_binding_data
\* ("null" before the first emitter) decide what is recorded for an emitter
RECURSIVE EffectLoop(_, _, _, _)
EffectLoop(group, index, prev_pipeline_data, prev_pipeline_binding_data) ==
    IF index > Len(group) THEN << >>
    ELSE LET pipeline_data == effect_pipeline_data(group[index])
             pipeline_binding_data == group[index]
         IN  (IF prev_pipeline_data # pipeline_data
              THEN (IF prev_pipeline_data # "null"
                    THEN << Cmd("end_render_pass", prev_pipeline_data) >>
                    ELSE << >>)
                   \o << Cmd("begin_render_pass_pipeline", pipeline_data) >>
              ELSE << >>)
             \o (IF prev_pipeline_binding_data # pipeline_binding_data
                 THEN << Cmd("bind_descriptor_sets", pipeline_binding_data) >>
                 ELSE << >>)
             \o << Cmd("upload_push_constant_data", index),
                   Cmd("draw_elements_instanced", index) >>
             \o EffectLoop(group, index + 1, pipeline_data, pipeline_binding_data)

\* a render_effects that returns without ending the pass of the last emitter
render_effects_leaving_pass_open(group) ==
    IF Len(group) = 0 THEN << >>
    ELSE EffectLoop(group, 1, "null", "null")

\* EffectManager::render_effects
render_effects(group) ==
    IF Len(group) = 0 THEN << >>
    ELSE EffectLoop(group, 1, "null", "null")
         \o << Cmd("end_render_pass", effect_pipeline_data(group[Len(group)])) >>

\* how many emitter slots are allocated at most
MaxEmitters == 2
\* the largest EmitterData::_max_particle_count tried
MaxEmitterParticles == 2
\* the particles the GPU buffers hold
MAX_PARTICLE_COUNT == 3

\* the index of an emitter that holds no slot, the offset of one that holds
\* no particles
INVALID_ALLOCATED_EMITTER_INDEX == 0 - 1

\* an emitter slot: a null pointer, or an emitter with its particle budget,
\* the slot and the particle range it was given before, and whether its
\* static constants still have to be uploaded
NullEmitter ==
    [ is_null |-> TRUE, max_particle_count |-> 0,
      allocated_emitter_index |-> INVALID_ALLOCATED_EMITTER_INDEX,
      allocated_particle_offset |-> INVALID_ALLOCATED_EMITTER_INDEX,
      allocated_particle_count |-> 0,
      need_to_upload_static_constant_buffer |-> FALSE ]
\* the emitters a slot may hold: newly allocated ones, and ones that were
\* given the particles [0, c) or [1, 1 + c) by the call before
EmitterSlots(slot) ==
    { NullEmitter }
    \cup { [ is_null |-> FALSE, max_particle_count |-> c,
             allocated_emitter_index |-> slot,
             allocated_particle_offset |-> INVALID_ALLOCATED_EMITTER_INDEX,
             allocated_particle_count |-> 0,
             need_to_upload_static_constant_buffer |-> TRUE ] :
           c \in 0 .. MaxEmitterParticles }
    \cup { [ is_null |-> FALSE, max_particle_count |-> c,
             allocated_emitter_index |-> slot,
             allocated_particle_offset |-> o,
             allocated_particle_count |-> c,
             need_to_upload_static_constant_buffer |-> FALSE ] :
           c \in 1 .. MaxEmitterParticles, o \in 0 .. 1 }
\* the allocated slots: each emitter's recorded index is its slot
EmitterLists ==
    UNION { { l \in [ 1 .. n -> UNION { EmitterSlots(slot) : slot \in 0 .. n - 1 } ] :
                \A i \in 1 .. n : l[i] \in EmitterSlots(i - 1) } :
            n \in 0 .. MaxEmitters }

Min(a, b) == IF a < b THEN a ELSE b
Max(a, b) == IF a > b THEN a ELSE b

\* EffectManagerData::deallocate_emitter: the slot the emitter holds is freed
deallocate_emitter(emitters, emitter) ==
    [ n \in DOMAIN emitters |->
        IF n = emitter.allocated_emitter_index + 1 THEN NullEmitter ELSE emitters[n] ]

\* the move that leaves the emitter's recorded index as it was
move_emitter_keeping_its_index(emitters, emitter_index, process_emitter_count, emitter) ==
    LET moved == [ emitters EXCEPT ![process_emitter_count + 1] = emitter ]
    IN  [ moved EXCEPT ![emitter_index] = NullEmitter ]

\* `if need_to_change_allocate_emitter_index { .. }`: the emitter is moved to
\* slot process_emitter_count, the slot it came from is set to null
move_emitter(emitters, emitter_index, process_emitter_count, emitter) ==
    LET moved == [ emitters EXCEPT ![process_emitter_count + 1] =
                       [ emitter EXCEPT !.allocated_emitter_index =
                                            process_emitter_count ] ]
    IN  [ moved EXCEPT ![emitter_index] = NullEmitter ]

\* the loop over the allocated emitters: null slots are skipped, an emitter
\* left without particles is deallocated, the others are packed to the front
\* and given their share of the particle buffer
RECURSIVE EmitterLoop(_, _, _)
EmitterLoop(emitter_count, emitter_index, st) ==
    IF emitter_index > emitter_count THEN st
    ELSE IF st.emitters[emitter_index].is_null
         THEN EmitterLoop(emitter_count, emitter_index + 1, st)
         ELSE LET emitter == st.emitters[emitter_index]
                  available_particle_count ==
                      Max(0, Min(MAX_PARTICLE_COUNT - st.process_gpu_particle_count,
                                 emitter.max_particle_count))
                  need_to_change_allocate_emitter_index ==
                      st.process_emitter_count # emitter.allocated_emitter_index
                  need_to_upload_static_constant_buffer ==
                      \/ emitter.need_to_upload_static_constant_buffer
                      \/ need_to_change_allocate_emitter_index
                  refill ==
                      \/ need_to_upload_static_constant_buffer
                      \/ st.process_gpu_particle_count # emitter.allocated_particle_offset
                      \/ available_particle_count # emitter.allocated_particle_count
                  updated ==
                      [ emitter EXCEPT
                          !.need_to_upload_static_constant_buffer = FALSE,
                          !.allocated_particle_offset =
                              IF refill THEN st.process_gpu_particle_count ELSE @,
                          !.allocated_particle_count =
                              IF refill THEN available_particle_count ELSE @ ]
              IN  IF available_particle_count = 0
                  THEN EmitterLoop(emitter_count, emitter_index + 1,
                           [ st EXCEPT !.emitters = deallocate_emitter(@, emitter) ])
                  ELSE EmitterLoop(emitter_count, emitter_index + 1,
                           [ emitters |->
                                 IF need_to_change_allocate_emitter_index
                                 THEN move_emitter(st.emitters, emitter_index,
                                                   st.process_emitter_count, updated)
                                 ELSE [ st.emitters EXCEPT ![emitter_index] = updated ],
                             process_gpu_particle_count |->
                                 st.process_gpu_particle_count + available_particle_count,
                             process_emitter_count |-> st.process_emitter_count + 1 ])

ProcessedEmitters(emitters) ==
    EmitterLoop(Len(emitters), 1,
                [ emitters |-> emitters, process_gpu_particle_count |-> 0,
                  process_emitter_count |-> 0 ])

\* _allocated_emitters after the loop
packed_emitters(emitters) == ProcessedEmitters(emitters).emitters

Barrier(src_stage, dst_stage, src_access, dst_access, buffers) ==
    Cmd("pipeline_barrier",
        [ src_stage |-> src_stage, dst_stage |-> dst_stage,
          src_access |-> src_access, dst_access |-> dst_access, buffers |-> buffers ])

\* the uploads of the three particle buffers
upload_particle_buffers ==
    << Cmd("upload_shader_buffer_datas", "GpuParticleStaticConstants"),
       Cmd("upload_shader_buffer_datas", "GpuParticleDynamicConstants"),
       Cmd("upload_shader_buffer_datas", "GpuParticleEmitterIndexBuffer") >>

\* the compute work without the barrier between the two dispatches
record_particle_dispatches_unordered(process_emitter_count) ==
    IF process_emitter_count > 0
    THEN upload_particle_buffers
         \o << Barrier("TRANSFER", "COMPUTE_SHADER", { "TRANSFER_WRITE" },
                       { "SHADER_READ", "SHADER_WRITE" },
                       { "GpuParticleStaticConstants", "GpuParticleDynamicConstants" }),
               Cmd("dispatch_render_pass_pipeline",
                   "process_gpu_particle/compute_gpu_particle_count"),
               Cmd("dispatch_render_pass_pipeline",
                   "process_gpu_particle/update_gpu_particle"),
               Barrier("COMPUTE_SHADER", "VERTEX_SHADER", { "SHADER_WRITE" },
                       { "SHADER_READ" },
                       { "GpuParticleCountBuffer", "GpuParticleUpdateBuffer" }) >>
    ELSE << >>

\* what process_gpu_particles records once the emitters are packed
record_particle_dispatches(process_emitter_count) ==
    IF process_emitter_count > 0
    THEN upload_particle_buffers
         \o << Barrier("TRANSFER", "COMPUTE_SHADER", { "TRANSFER_WRITE" },
                       { "SHADER_READ", "SHADER_WRITE" },
                       { "GpuParticleStaticConstants", "GpuParticleDynamicConstants" }),
               Cmd("dispatch_render_pass_pipeline",
                   "process_gpu_particle/compute_gpu_particle_count"),
               Barrier("COMPUTE_SHADER", "COMPUTE_SHADER", { "SHADER_WRITE" },
                       { "SHADER_READ", "SHADER_WRITE" },
                       { "GpuParticleCountBuffer" }),
               Cmd("dispatch_render_pass_pipeline",
                   "process_gpu_particle/update_gpu_particle"),
               Barrier("COMPUTE_SHADER", "VERTEX_SHADER", { "SHADER_WRITE" },
                       { "SHADER_READ" },
                       { "GpuParticleCountBuffer", "GpuParticleUpdateBuffer" }) >>
    ELSE << >>

\* EffectManager::process_gpu_particles
process_gpu_particles(emitters) ==
    IF Len(emitters) = 0 THEN << >>
    ELSE record_particle_dispatches(ProcessedEmitters(emitters).process_emitter_count)

\* a scene, an effect group or a set of allocated emitters is handed over;
\* nothing is recorded yet
RecordInit ==
    /\ RendererInit
    /\ frame_fences = [ k \in FRAME_INDICES |-> TRUE ]
    /\ rec_pc = "start"
    /\ \/ /\ static_render_elements \in RenderElementLists
          /\ skeletal_render_elements \in RenderElementLists
          /\ effect_render_group = << >>
          /\ allocated_emitters = << >>
          /\ allocated_emitter_count = 0
          /\ allocated_particle_count = 0
       \/ /\ static_render_elements = << >>
          /\ skeletal_render_elements = << >>
          /\ effect_render_group \in RenderElementLists
          /\ allocated_emitters = << >>
          /\ allocated_emitter_count = 0
          /\ allocated_particle_count = 0
       \/ /\ static_render_elements = << >>
          /\ skeletal_render_elements = << >>
          /\ effect_render_group = << >>
          /\ allocated_emitters \in EmitterLists
          /\ allocated_emitter_count = Len(allocated_emitters)
          /\ allocated_particle_count \in
                 IF allocated_emitters = << >> THEN { 0 } ELSE 0 .. MAX_PARTICLE_COUNT
    /\ debug_render_target \in DebugTargets
    /\ debug_commands = 0
    /\ recorded = << >>
    /\ PostProcessIdle
    /\ NumericIdle
    /\ EventIdle

\* render_scene records the frame
RenderScene ==
    /\ rec_pc = "start"
    /\ recorded' = render_scene(static_render_elements, skeletal_render_elements,
                                debug_render_target)
    /\ rec_pc' = "render_scene"
    /\ UNCHANGED << recordInputs, allocated_emitters, allocated_emitter_count,
                    allocated_particle_count, rendererVars, postProcessVars, numericVars,
                    eventVars >>

\* render_effects records the particle draws
RenderEffects ==
    /\ rec_pc = "start"
    /\ recorded' = render_effects(effect_render_group)
    /\ rec_pc' = "render_effects"
    /\ UNCHANGED << recordInputs, allocated_emitters, allocated_emitter_count,
                    allocated_particle_count, rendererVars, postProcessVars, numericVars,
                    eventVars >>

\* process_gpu_particles packs the allocated emitters and records the compute
\* work for them
ProcessGpuParticles ==
    /\ rec_pc = "start"
    /\ recorded' = process_gpu_particles(allocated_emitters)
    /\ allocated_emitters' = packed_emitters(allocated_emitters)
    /\ allocated_emitter_count' =
           ProcessedEmitters(allocated_emitters).process_emitter_count
    /\ allocated_particle_count' =
           IF Len(allocated_emitters) = 0 THEN allocated_particle_count
           ELSE ProcessedEmitters(allocated_emitters).process_gpu_particle_count
    /\ rec_pc' = "process_gpu_particles"
    /\ UNCHANGED << recordInputs, rendererVars, postProcessVars, numericVars,
                    eventVars >>

RecordNext ==
    \/ RenderScene
    \/ RenderEffects
    \/ ProcessGpuParticles

RecordSpec == RecordInit /\ [][RecordNext]_vars

\* the steps of a frame, in the order they are to be issued
FrameOrder ==
    << "SceneConstants", "ViewConstants", "LightConstants", "SSAOConstants",
       "render_pass_static_shadow", "render_pass_skeletal_shadow",
       "render_pass_static_opaque", "render_pass_skeletal_opaque",
       "render_ssao", "composite_gbuffer", "render_motion_blur",
       "render_final", "render_debug" >>

Range(f) == { f[x] : x \in DOMAIN f }

\* the place of a step in FrameOrder
OrderOf(step) == CHOOSE n \in DOMAIN FrameOrder : FrameOrder[n] = step

IsStep(cmd) == cmd.op \in { "upload_buffer_data_info", "begin_render_pass_pipeline" }

\* the steps a command sequence issues: its constant uploads and pass begins
StepsOf(cmds) ==
    LET steps == SelectSeq(cmds, IsStep)
    IN  [ n \in DOMAIN steps |-> steps[n].arg ]

Issues(cmds, step) == \E n \in DOMAIN StepsOf(cmds) : StepsOf(cmds)[n] = step

\* C12: a recorded frame issues the uniform-buffer uploads (scene, view, light,
\* SSAO constants), the shadow passes (static, skeletal), the opaque passes
\* (static, skeletal), SSAO, composite-g-buffer, motion blur, the final
\* composite and the debug view in this one order, whatever the scene holds and
\* whatever the debug target is: the uploads, the post-process chain and the
\* final composite are always issued, a geometry pass exactly when the scene has
\* elements of its type, the debug view exactly when a debug target is set.
FrameIssuedInFixedOrder ==
    rec_pc = "render_scene" =>
        LET steps == StepsOf(recorded)
        IN  /\ \A n \in DOMAIN steps : steps[n] \in Range(FrameOrder)
            /\ \A m, n \in DOMAIN steps :
                   m < n => OrderOf(steps[m]) < OrderOf(steps[n])
            /\ \A step \in { "SceneConstants", "ViewConstants", "LightConstants",
                             "SSAOConstants", "render_ssao", "composite_gbuffer",
                             "render_motion_blur", "render_final" } :
                   Issues(recorded, step)
            /\ Issues(recorded, "render_pass_static_shadow")
                   <=> static_render_elements # << >>
            /\ Issues(recorded, "render_pass_static_opaque")
                   <=> static_render_elements # << >>
            /\ Issues(recorded, "render_pass_skeletal_shadow")
                   <=> skeletal_render_elements # << >>
            /\ Issues(recorded, "render_pass_skeletal_opaque")
                   <=> skeletal_render_elements # << >>
            /\ Issues(recorded, "render_debug") <=> debug_render_target # "BackBuffer"

\* a frame with static and skeletal elements and a debug target was recorded:
\* all thirteen steps are in it
FullFrameRecorded ==
    /\ rec_pc = "render_scene"
    /\ static_render_elements # << >>
    /\ skeletal_render_elements # << >>
    /\ debug_render_target # "BackBuffer"
    /\ Len(StepsOf(recorded)) = Len(FrameOrder)

(* ---------------------------------------------------------------------- *)
(* Post-process features: ping-pong pairs and mip chains                   *)
(* ---------------------------------------------------------------------- *)
\* up to which time, in twentieths of a second, FFTOcean::_acc_time is followed
MaxOceanTime == 3
\* the frame times FFTOcean::update is called with, in twentieths of a second
OceanDeltaTimes == { 1, 2 }
\* the most mip levels and layers a target is given
MaxMipLevels == 4
MaxLayers == 2
\* up to how many calls of RendererData_SSR::update are counted
MaxSsrUpdates == 3

\* one image subresource
SubImage(texture, layer, mip_level) == << texture, layer, mip_level >>

\* TextureData::get_sub_image_info: the view of one layer and mip level
get_sub_image_info(texture, layer, mip_level) == { SubImage(texture, layer, mip_level) }

\* TextureData::get_default_image_info: the view of the whole image
get_default_image_info(texture, layers, mip_levels) ==
    { SubImage(texture, layer, mip_level) :
          layer \in 0 .. layers - 1, mip_level \in 0 .. mip_levels - 1 }

\* utility::create_framebuffer: one layer and mip level of the target attached
create_framebuffer(render_target, layer, mip_level) ==
    { SubImage(render_target, layer, mip_level) }

\* utility::create_framebuffer_2d_array: every layer of the target attached
create_framebuffer_2d_array(render_target, layers, mip_level) ==
    { SubImage(render_target, layer, mip_level) : layer \in 0 .. layers - 1 }

\* utility::create_descriptor_sets: the bindings the caller sets (the others keep
\* what the material instance gives them)
create_descriptor_sets(descriptor_resource_infos) == descriptor_resource_infos

\* utility::create_framebuffer_and_descriptor_sets
create_framebuffer_and_descriptor_sets(render_target, layer, mip_level, infos) ==
    [ framebuffer |-> create_framebuffer(render_target, layer, mip_level),
      descriptor_sets |-> create_descriptor_sets(infos) ]

\* the sequences of a sequence of sequences, one after the other
RECURSIVE Flatten(_)
Flatten(seqs) == IF seqs = << >> THEN << >> ELSE Head(seqs) \o Flatten(Tail(seqs))

\* RendererData_Bloom::initialize, the downsampling chain: mip level + 1 of
\* Bloom0 is written from mip level
bloom_downsample_pairs(mip_levels) ==
    LET pair(mip_level) ==
            create_framebuffer_and_descriptor_sets("Bloom0", 0, mip_level + 1,
                (0 :> get_sub_image_info("Bloom0", 0, mip_level)))
    IN  [ n \in 1 .. (mip_levels - 1) |-> pair(n - 1) ]

\* RendererData_Bloom::initialize, the gaussian blur: per mip level a
\* horizontal pass into BloomTemp0 and a vertical pass back into Bloom0
bloom_temp_pairs(mip_levels) ==
    LET pairs(mip_level) ==
            << create_framebuffer_and_descriptor_sets("BloomTemp0", 0, mip_level,
                   (0 :> get_sub_image_info("Bloom0", 0, mip_level))),
               create_framebuffer_and_descriptor_sets("Bloom0", 0, mip_level,
                   (0 :> get_sub_image_info("BloomTemp0", 0, mip_level))) >>
    IN  Flatten([ n \in 1 .. (mip_levels) |-> pairs(n - 1) ])

\* post_process::util_create_framebuffer: one layer and mip level attached
util_create_framebuffer(render_target, layer, mip_level) ==
    { SubImage(render_target, layer, mip_level) }

\* post_process::util_create_descriptor_sets: the one binding set to a view
\* of the input texture
util_create_descriptor_sets(binding_index, input_texture, layer, mip_level) ==
    (binding_index :> get_sub_image_info(input_texture, layer, mip_level))

\* post_process::util_create_framebuffer_and_descriptor_sets
util_create_framebuffer_and_descriptor_sets(render_target, layer, mip_level, binding_index, input_texture, input_layer, input_mip_level) ==
    [ framebuffer |-> util_create_framebuffer(render_target, layer, mip_level),
      descriptor_sets |-> util_create_descriptor_sets(binding_index, input_texture,
                                                      input_layer, input_mip_level) ]

\* PostProcessData_Bloom::initialize, the downsampling chain: one pair for
\* each mip_level of `0..render_target_bloom0._image_mip_levels`
post_process_bloom_downsample_pairs(mip_levels) ==
    LET pair(mip_level) ==
            util_create_framebuffer_and_descriptor_sets(
                "Bloom0", 0, mip_level + 1, 0, "Bloom0", 0, mip_level)
    IN  [ n \in 1 .. (mip_levels) |-> pair(n - 1) ]

\* PostProcessData_Bloom::initialize, the gaussian blur
post_process_bloom_temp_pairs(mip_levels) ==
    LET pairs(mip_level) ==
            << util_create_framebuffer_and_descriptor_sets(
                   "BloomTemp0", 0, mip_level, 0, "Bloom0", 0, mip_level),
               util_create_framebuffer_and_descriptor_sets(
                   "Bloom0", 0, mip_level, 0, "BloomTemp0", 0, mip_level) >>
    IN  Flatten([ n \in 1 .. (mip_levels) |-> pairs(n - 1) ])

\* RendererData_SSAO::initialize
ssao_blur_pairs ==
    << create_framebuffer_and_descriptor_sets("SSAOTemp", 0, 0,
           (0 :> get_sub_image_info("SSAO", 0, 0))),
       create_framebuffer_and_descriptor_sets("SSAO", 0, 0,
           (0 :> get_sub_image_info("SSAOTemp", 0, 0))) >>

\* a resolve pass that samples the target it renders to
ssr_resolve_pairs_self_referencing ==
    << create_framebuffer_and_descriptor_sets("SSRResolved", 0, 0,
           (1 :> get_sub_image_info("SSRResolved", 0, 0))),
       create_framebuffer_and_descriptor_sets("SSRResolvedPrev", 0, 0,
           (1 :> get_sub_image_info("SSRResolvedPrev", 0, 0))) >>

\* RendererData_SSR::initialize
ssr_resolve_pairs ==
    << create_framebuffer_and_descriptor_sets("SSRResolved", 0, 0,
           (1 :> get_sub_image_info("SSRResolvedPrev", 0, 0))),
       create_framebuffer_and_descriptor_sets("SSRResolvedPrev", 0, 0,
           (1 :> get_sub_image_info("SSRResolved", 0, 0))) >>

\* a mip chain with a descriptor set for every mip level, reading and writing
\* the same level
mip_chain_per_level(texture, layer, mip_levels) ==
    LET sets(mip_level) ==
            create_descriptor_sets(
                (0 :> get_sub_image_info(texture, layer, mip_level))
                @@ (1 :> get_sub_image_info(texture, layer, mip_level)))
    IN  [ n \in 1 .. (mip_levels) |-> sets(n - 1) ]

\* the loop of RendererData_HierachicalMinZ::initialize,
\* RendererData_SceneColorDownSampling::initialize and of the mip generation of
\* FFTOcean::prepare_framebuffer_and_descriptors: a descriptor set per dispatch
mip_chain_descriptor_sets(texture, layer, mip_levels) ==
    LET sets(mip_level) ==
            create_descriptor_sets(
                (0 :> get_sub_image_info(texture, layer, mip_level))
                @@ (1 :> get_sub_image_info(texture, layer, mip_level + 1)))
    IN  [ n \in 1 .. (mip_levels - 1) |-> sets(n - 1) ]

\* FFTOcean::prepare_framebuffer_and_descriptors, the wave passes: framebuffers
\* on FFT_A and FFT_B, descriptor sets sampling FFT_A and FFT_B at binding 1
\* (first the x passes', then the y passes')
fft_wave_framebuffer(texture, layers) == create_framebuffer_2d_array(texture, layers, 0)
fft_wave_descriptor_sets(texture, layers, mip_levels) ==
    create_descriptor_sets((1 :> get_default_image_info(texture, layers, mip_levels)))

fft_wave_pairs(layers, mip_levels) ==
    [ a |-> [ framebuffer |-> fft_wave_framebuffer("FFT_A", layers),
              descriptor_sets |-> fft_wave_descriptor_sets("FFT_A", layers, mip_levels) ],
      b |-> [ framebuffer |-> fft_wave_framebuffer("FFT_B", layers),
              descriptor_sets |-> fft_wave_descriptor_sets("FFT_B", layers, mip_levels) ] ]

\* FFTOcean::prepare_framebuffer_and_descriptors, the mip generation of FFT_A
fft_a_generate_mips(layers, mip_levels) ==
    LET of_layer(layer) == mip_chain_descriptor_sets("FFT_A", layer, mip_levels)
    IN  [ n \in 1 .. (layers) |-> of_layer(n - 1) ]

\* FFTOcean::simulate_fft_waves: pass i of the x passes (0 .. PASSES - 1) and of
\* the y passes (PASSES .. 2 * PASSES - 1) renders to FFT_B from FFT_A when i is
\* even, to FFT_A from FFT_B when it is odd
fft_wave_pass(pairs, i) ==
    IF i % 2 = 0
    THEN [ framebuffer |-> pairs.b.framebuffer, descriptor_sets |-> pairs.a.descriptor_sets ]
    ELSE [ framebuffer |-> pairs.a.framebuffer, descriptor_sets |-> pairs.b.descriptor_sets ]

simulate_fft_waves(x_pairs, y_pairs) ==
    LET x_pass(i) == fft_wave_pass(x_pairs, i)
        y_pass(i) == fft_wave_pass(y_pairs, i + PASSES)
    IN  [ n \in 1 .. (PASSES) |-> x_pass(n - 1) ] \o [ n \in 1 .. (PASSES) |-> y_pass(n - 1) ]

\* an update that loses the previous target
ssr_update_without_temp(roles) ==
    [ current |-> roles.previous, previous |-> roles.previous ]

\* RendererData_SSR::update
ssr_update(roles) ==
    LET temp == roles.current
    IN  [ current |-> roles.previous, previous |-> temp ]

\* targets of some mip levels and layers are there; nothing is initialised
PostProcessInit ==
    /\ NumericIdle
    /\ EventIdle
    /\ RendererInit
    /\ frame_fences = [ k \in FRAME_INDICES |-> TRUE ]
    /\ RecordIdle
    /\ image_mip_levels \in 1 .. MaxMipLevels
    /\ image_layers \in 1 .. MaxLayers
    /\ pass_bindings = [ f \in PassFeatures |-> << >> ]
    /\ mip_descriptor_sets = [ f \in MipFeatures |-> << >> ]
    /\ fft_wave_bindings = << >>
    /\ fft_passes = << >>
    /\ current_ssr_resolved = "SSRResolved"
    /\ previous_ssr_resolved = "SSRResolvedPrev"
    /\ ssr_update_count = 0
    /\ render_fft_ocean_descriptor_sets = << >>
    /\ acc_time = 0
    /\ caustic_index = 0
    /\ ocean_pc = "running"

\* RendererData_Bloom::initialize
InitializeBloom ==
    /\ ocean_pc = "running"
    /\ pass_bindings["bloom_temp"] = << >>
    /\ pass_bindings' = [ pass_bindings EXCEPT
           !["bloom_downsample"] = bloom_downsample_pairs(image_mip_levels),
           !["bloom_temp"] = bloom_temp_pairs(image_mip_levels) ]
    /\ UNCHANGED << postProcessInputs, mip_descriptor_sets, fft_wave_bindings, fft_passes,
                    current_ssr_resolved,
                    previous_ssr_resolved, ssr_update_count, recordVars, rendererVars,
                    numericVars, eventVars, oceanVars >>

\* PostProcessData_Bloom::initialize
InitializePostProcessBloom ==
    /\ ocean_pc = "running"
    /\ pass_bindings["post_process_bloom_temp"] = << >>
    /\ pass_bindings' = [ pass_bindings EXCEPT
           !["post_process_bloom_downsample"] =
               post_process_bloom_downsample_pairs(image_mip_levels),
           !["post_process_bloom_temp"] =
               post_process_bloom_temp_pairs(image_mip_levels) ]
    /\ UNCHANGED << postProcessInputs, mip_descriptor_sets, fft_wave_bindings, fft_passes,
                    current_ssr_resolved,
                    previous_ssr_resolved, ssr_update_count, recordVars, rendererVars,
                    numericVars, eventVars, oceanVars >>

\* RendererData_SSAO::initialize
InitializeSSAO ==
    /\ ocean_pc = "running"
    /\ pass_bindings["ssao_blur"] = << >>
    /\ pass_bindings' = [ pass_bindings EXCEPT !["ssao_blur"] = ssao_blur_pairs ]
    /\ UNCHANGED << postProcessInputs, mip_descriptor_sets, fft_wave_bindings, fft_passes,
                    current_ssr_resolved,
                    previous_ssr_resolved, ssr_update_count, recordVars, rendererVars,
                    numericVars, eventVars, oceanVars >>

\* RendererData_SSR::initialize
InitializeSSR ==
    /\ ocean_pc = "running"
    /\ pass_bindings["ssr_resolve"] = << >>
    /\ pass_bindings' = [ pass_bindings EXCEPT !["ssr_resolve"] = ssr_resolve_pairs ]
    /\ UNCHANGED << postProcessInputs, mip_descriptor_sets, fft_wave_bindings, fft_passes,
                    current_ssr_resolved,
                    previous_ssr_resolved, ssr_update_count, recordVars, rendererVars,
                    numericVars, eventVars, oceanVars >>

\* RendererData_HierachicalMinZ::initialize
InitializeHierachicalMinZ ==
    /\ ocean_pc = "running"
    /\ mip_descriptor_sets["hierachical_min_z"] = << >>
    /\ mip_descriptor_sets' = [ mip_descriptor_sets EXCEPT !["hierachical_min_z"] =
           << mip_chain_descriptor_sets("HierarchicalMinZ", 0, image_mip_levels) >> ]
    /\ UNCHANGED << postProcessInputs, pass_bindings, fft_wave_bindings, fft_passes,
                    current_ssr_resolved,
                    previous_ssr_resolved, ssr_update_count, recordVars, rendererVars,
                    numericVars, eventVars, oceanVars >>

\* RendererData_SceneColorDownSampling::initialize
InitializeSceneColorDownSampling ==
    /\ ocean_pc = "running"
    /\ mip_descriptor_sets["scene_color_downsampling"] = << >>
    /\ mip_descriptor_sets' = [ mip_descriptor_sets EXCEPT !["scene_color_downsampling"] =
           << mip_chain_descriptor_sets("SceneColor", 0, image_mip_levels) >> ]
    /\ UNCHANGED << postProcessInputs, pass_bindings, fft_wave_bindings, fft_passes,
                    current_ssr_resolved,
                    previous_ssr_resolved, ssr_update_count, recordVars, rendererVars,
                    numericVars, eventVars, oceanVars >>

\* FFTOcean::prepare_framebuffer_and_descriptors
PrepareFftOcean ==
    /\ ocean_pc = "running"
    /\ mip_descriptor_sets["fft_a_generate_mips"] = << >>
    /\ fft_wave_bindings' = << fft_wave_pairs(image_layers, image_mip_levels),
                               fft_wave_pairs(image_layers, image_mip_levels) >>
    /\ mip_descriptor_sets' = [ mip_descriptor_sets EXCEPT !["fft_a_generate_mips"] =
           fft_a_generate_mips(image_layers, image_mip_levels) ]
    /\ UNCHANGED << postProcessInputs, pass_bindings, fft_passes, current_ssr_resolved,
                    previous_ssr_resolved, ssr_update_count, recordVars, rendererVars,
                    numericVars, eventVars, oceanVars >>

\* FFTOcean::destroy_fft_ocean: the framebuffers are destroyed and every list
\* of framebuffers and descriptor sets is cleared
DestroyFftOcean ==
    /\ ocean_pc = "running"
    /\ fft_wave_bindings # << >>
    /\ fft_wave_bindings' = << >>
    /\ mip_descriptor_sets' =
           [ mip_descriptor_sets EXCEPT !["fft_a_generate_mips"] = << >> ]
    /\ render_fft_ocean_descriptor_sets' = << >>
    /\ UNCHANGED << postProcessInputs, pass_bindings, fft_passes, current_ssr_resolved,
                    previous_ssr_resolved, ssr_update_count, acc_time, caustic_index,
                    ocean_pc, recordVars, rendererVars, numericVars, eventVars >>

\* `x % len` on usize: a panic where len is 0
usize_rem(x, len) ==
    IF len = 0 THEN [ panicked |-> TRUE, value |-> 0 ]
    ELSE [ panicked |-> FALSE, value |-> x % len ]

\* FFTOcean::update, delta_time in twentieths of a second
UpdateFftOcean ==
    /\ ocean_pc = "running"
    /\ \E delta_time \in OceanDeltaTimes :
           /\ acc_time + delta_time <= MaxOceanTime
           /\ acc_time' = acc_time + delta_time
           /\ LET rem == usize_rem(acc_time + delta_time,
                                   Len(render_fft_ocean_descriptor_sets))
              IN  /\ caustic_index' = IF rem.panicked THEN caustic_index ELSE rem.value
                  /\ ocean_pc' = IF rem.panicked THEN "remainder_by_zero" ELSE ocean_pc
    /\ UNCHANGED << postProcessInputs, pass_bindings, mip_descriptor_sets,
                    fft_wave_bindings, fft_passes, current_ssr_resolved,
                    previous_ssr_resolved, ssr_update_count,
                    render_fft_ocean_descriptor_sets,
                    recordVars, rendererVars, numericVars, eventVars >>

\* FFTOcean::simulate_fft_waves, once the ocean is prepared
SimulateFftWaves ==
    /\ ocean_pc = "running"
    /\ fft_wave_bindings # << >>
    /\ fft_passes' = simulate_fft_waves(fft_wave_bindings[1], fft_wave_bindings[2])
    /\ UNCHANGED << postProcessInputs, pass_bindings, mip_descriptor_sets, fft_wave_bindings,
                    current_ssr_resolved, previous_ssr_resolved, ssr_update_count,
                    recordVars, rendererVars,
                    numericVars, eventVars, oceanVars >>

\* RendererData_SSR::update, once a frame
UpdateSSR ==
    /\ ocean_pc = "running"
    /\ ssr_update_count < MaxSsrUpdates
    /\ LET roles == ssr_update([ current |-> current_ssr_resolved,
                                 previous |-> previous_ssr_resolved ])
       IN  /\ current_ssr_resolved' = roles.current
           /\ previous_ssr_resolved' = roles.previous
    /\ ssr_update_count' = ssr_update_count + 1
    /\ UNCHANGED << postProcessInputs, pass_bindings, mip_descriptor_sets,
                    fft_wave_bindings, fft_passes, recordVars, rendererVars,
                    numericVars, eventVars, oceanVars >>

PostProcessNext ==
    \/ InitializeBloom
    \/ InitializePostProcessBloom
    \/ InitializeSSAO
    \/ InitializeSSR
    \/ InitializeHierachicalMinZ
    \/ InitializeSceneColorDownSampling
    \/ PrepareFftOcean
    \/ DestroyFftOcean
    \/ UpdateFftOcean
    \/ SimulateFftWaves
    \/ UpdateSSR

PostProcessSpec == PostProcessInit /\ [][PostProcessNext]_vars

(* ---------------------------------------------------------------------- *)
(* Passes with several draws                                               *)
(* ---------------------------------------------------------------------- *)
IsBegin(cmd) == cmd.op = "begin_render_pass_pipeline"
IsEnd(cmd) == cmd.op = "end_render_pass"
IsBind(cmd) == cmd.op = "bind_descriptor_sets"
IsDraw(cmd) == cmd.op \in { "draw_elements", "draw_elements_instanced" }

\* how often a command sequence begins the named pass
BeginCount(cmds, pass) ==
    Cardinality({ n \in DOMAIN cmds : IsBegin(cmds[n]) /\ cmds[n].arg = pass })

\* the commands of the named pass: from its first begin to the end_render_pass
\* that follows
PassCmds(cmds, pass) ==
    LET begins == { n \in DOMAIN cmds : IsBegin(cmds[n]) /\ cmds[n].arg = pass }
    IN  IF begins = {} THEN << >>
        ELSE LET b == CHOOSE n \in begins : \A m \in begins : n <= m
                 ends == { n \in DOMAIN cmds : n > b /\ IsEnd(cmds[n]) }
                 e == CHOOSE n \in ends : \A m \in ends : n <= m
             IN  SubSeq(cmds, b, e)

BindCount(cmds) == Len(SelectSeq(cmds, IsBind))
DrawCount(cmds) == Len(SelectSeq(cmds, IsDraw))

\* the pipeline binding bound when the n-th command is recorded
BoundAt(cmds, n) ==
    LET binds == { m \in 1 .. n : IsBind(cmds[m]) }
    IN  IF binds = {} THEN "null"
        ELSE cmds[CHOOSE m \in binds : \A k \in binds : k <= m].arg

\* the elements whose pipeline binding differs from that of the element before
BindingChanges(elements) ==
    Cardinality({ i \in DOMAIN elements : i = 1 \/ elements[i] # elements[i - 1] })

\* every draw of the pass is recorded with the binding of its element bound
DrawsUseOwnBinding(cmds, elements) ==
    \A n \in DOMAIN cmds : IsDraw(cmds[n]) => BoundAt(cmds, n) = elements[cmds[n].arg]

\* the elements an opaque or shadow pass of the given type draws
ElementsOf(render_object_type) ==
    IF render_object_type = "Static" THEN static_render_elements
    ELSE skeletal_render_elements

\* C17 as stated: a pass with N draws is begun exactly once, and a bind is
\* recorded for a draw only if its pipeline binding differs from that of the
\* draw before (one bind per run of draws sharing a binding).
BindOnlyOnBindingChange ==
    /\ rec_pc = "render_scene" =>
           \A type \in RenderObjectTypes :
               ElementsOf(type) # << >> =>
                   /\ BeginCount(recorded, opaque_pass_name(type)) = 1
                   /\ BeginCount(recorded, shadow_pass_name(type)) = 1
                   /\ BindCount(PassCmds(recorded, opaque_pass_name(type)))
                          = BindingChanges(ElementsOf(type))
                   /\ BindCount(PassCmds(recorded, shadow_pass_name(type))) = 1
    /\ rec_pc = "render_effects" =>
           BindCount(recorded) = BindingChanges(effect_render_group)

\* C17 as the code has it: a pass with N draws is begun exactly once and every
\* draw is recorded with its own pipeline binding bound; the shadow pass, whose
\* draws share one binding, records one bind, the effect pass records a bind
\* only where the binding differs from that of the draw before, and the opaque
\* pass records a bind for every one of its N draws.
BindBeforeEveryOpaqueDraw ==
    /\ rec_pc = "render_scene" =>
           \A type \in RenderObjectTypes :
               ElementsOf(type) # << >> =>
                   /\ BeginCount(recorded, opaque_pass_name(type)) = 1
                   /\ BeginCount(recorded, shadow_pass_name(type)) = 1
                   /\ DrawCount(PassCmds(recorded, opaque_pass_name(type)))
                          = Len(ElementsOf(type))
                   /\ DrawCount(PassCmds(recorded, shadow_pass_name(type)))
                          = Len(ElementsOf(type))
                   /\ BindCount(PassCmds(recorded, opaque_pass_name(type)))
                          = Len(ElementsOf(type))
                   /\ DrawsUseOwnBinding(PassCmds(recorded, opaque_pass_name(type)),
                                         ElementsOf(type))
                   /\ BindCount(PassCmds(recorded, shadow_pass_name(type))) = 1
    /\ rec_pc = "render_effects" =>
           /\ BindCount(recorded) = BindingChanges(effect_render_group)
           /\ DrawCount(recorded) = Len(effect_render_group)
           /\ DrawsUseOwnBinding(recorded, effect_render_group)

\* an opaque pass was recorded for two static elements sharing one pipeline
\* binding
SharedBindingDrawnTwice ==
    /\ rec_pc = "render_scene"
    /\ Len(static_render_elements) = 2
    /\ static_render_elements[1] = static_render_elements[2]
    /\ DrawCount(PassCmds(recorded, "render_pass_static_opaque")) = 2

(* ---------------------------------------------------------------------- *)
(* GPU particles                                                           *)
(* ---------------------------------------------------------------------- *)
IsDispatch(cmd) == cmd.op = "dispatch_render_pass_pipeline"
IsBarrier(cmd) == cmd.op = "pipeline_barrier"
IsUpload(cmd) == cmd.op = "upload_shader_buffer_datas"

\* a barrier from the given writes to the given reads and writes
BarrierFromTo(cmd, src_access, dst_stage, dst_access) ==
    /\ IsBarrier(cmd)
    /\ cmd.arg.src_access = src_access
    /\ cmd.arg.dst_stage = dst_stage
    /\ cmd.arg.dst_access = dst_access

\* C14: when GPU particle processing records its dispatches, the recorded
\* commands are, in this order, the buffer uploads, a transfer-write to
\* compute-read/write barrier, the particle-count dispatch, a compute-write to
\* compute-read/write barrier on the count buffer, the particle-update
\* dispatch and a compute-write to vertex-read barrier, with no draw before
\* that last barrier; there are exactly these three barriers and two dispatches.
ParticleBarriersInOrder ==
    (rec_pc = "process_gpu_particles" /\ \E n \in DOMAIN recorded : IsDispatch(recorded[n])) =>
        \E u, b1, d1, b2, d2, b3 \in DOMAIN recorded :
            /\ u < b1 /\ b1 < d1 /\ d1 < b2 /\ b2 < d2 /\ d2 < b3
            /\ \A n \in 1 .. u : IsUpload(recorded[n])
            /\ \A n \in DOMAIN recorded : IsUpload(recorded[n]) => n <= u
            /\ BarrierFromTo(recorded[b1], { "TRANSFER_WRITE" }, "COMPUTE_SHADER",
                             { "SHADER_READ", "SHADER_WRITE" })
            /\ IsDispatch(recorded[d1])
            /\ recorded[d1].arg = "process_gpu_particle/compute_gpu_particle_count"
            /\ BarrierFromTo(recorded[b2], { "SHADER_WRITE" }, "COMPUTE_SHADER",
                             { "SHADER_READ", "SHADER_WRITE" })
            /\ "GpuParticleCountBuffer" \in recorded[b2].arg.buffers
            /\ IsDispatch(recorded[d2])
            /\ recorded[d2].arg = "process_gpu_particle/update_gpu_particle"
            /\ BarrierFromTo(recorded[b3], { "SHADER_WRITE" }, "VERTEX_SHADER",
                             { "SHADER_READ" })
            /\ \A n \in DOMAIN recorded : IsBarrier(recorded[n]) => n \in { b1, b2, b3 }
            /\ \A n \in DOMAIN recorded : IsDispatch(recorded[n]) => n \in { d1, d2 }
            /\ \A n \in 1 .. b3 : ~IsDraw(recorded[n])

\* particle work was recorded with every emitter slot allocated and at least
\* one emitter left with particles
ParticlesDispatched ==
    /\ rec_pc = "process_gpu_particles"
    /\ \E n \in DOMAIN recorded : IsDispatch(recorded[n])
    /\ Len(allocated_emitters) = MaxEmitters
    /\ ~allocated_emitters[1].is_null

\* the render passes open once the first n commands are recorded
OpenPasses(cmds, n) ==
    Cardinality({ m \in 1 .. n : IsBegin(cmds[m]) })
    - Cardinality({ m \in 1 .. n : IsEnd(cmds[m]) })

\* the begin and end commands recorded for the named pass or pipeline
BeginsAndEnds(cmds, names) ==
    { n \in DOMAIN cmds : (IsBegin(cmds[n]) \/ IsEnd(cmds[n])) /\ cmds[n].arg \in names }

\* C28: in the opaque, shadow and particle passes, whatever the element list
\* and the pipelines of its elements, begin and end of a render pass are
\* balanced and never nested: at most one pass is open at any point, none
\* is ended that was not begun, none is open when the function returns, and
\* an empty list records neither a begin nor an end.
RenderPassesBalanced ==
    /\ rec_pc \in { "render_scene", "render_effects" } =>
           /\ \A n \in DOMAIN recorded : OpenPasses(recorded, n) \in { 0, 1 }
           /\ OpenPasses(recorded, Len(recorded)) = 0
    /\ rec_pc = "render_scene" =>
           \A type \in RenderObjectTypes :
               IF ElementsOf(type) = << >>
               THEN BeginsAndEnds(recorded, { opaque_pass_name(type),
                                             shadow_pass_name(type) }) = { }
               ELSE /\ BeginCount(recorded, opaque_pass_name(type)) = 1
                    /\ BeginCount(recorded, shadow_pass_name(type)) = 1
    /\ rec_pc = "render_effects" =>
           IF effect_render_group = << >>
           THEN recorded = << >>
           ELSE \E n \in DOMAIN recorded : IsBegin(recorded[n])

\* the particle pass changed its pipeline between two emitters: one pass was
\* ended and another begun
EffectPipelineChanged ==
    /\ rec_pc = "render_effects"
    /\ Cardinality({ n \in DOMAIN recorded : IsBegin(recorded[n]) }) = 2
    /\ Cardinality({ n \in DOMAIN recorded : IsEnd(recorded[n]) }) = 2

\* the particles [offset, offset + count) an emitter was given
ParticleRange(emitter) ==
    emitter.allocated_particle_offset ..
        emitter.allocated_particle_offset + emitter.allocated_particle_count - 1

SampledBy(pass) ==
    UNION { pass.descriptor_sets[b] : b \in DOMAIN pass.descriptor_sets }

TexturesOf(sub_images) == { sub_image[1] : sub_image \in sub_images }

\* the passes rendered with the pairs the features hold, and the FFT wave passes
PassesRendered ==
    UNION { Range(pass_bindings[f]) : f \in PassFeatures } \cup Range(fft_passes)

\* C13: no pass samples an image subresource (texture, layer, mip level) that
\* it writes as an attachment; the SSR resolve, SSAO blur, bloom blur and FFT
\* passes sample one texture of their pair and write the other, the bloom
\* downsample chain samples one mip level and writes the next.
NoPassSamplesItsAttachment ==
    /\ \A pass \in PassesRendered : pass.framebuffer \cap SampledBy(pass) = {}
    /\ \A pass \in Range(pass_bindings["ssr_resolve"]) \cup Range(pass_bindings["ssao_blur"])
                   \cup Range(pass_bindings["bloom_temp"]) \cup Range(fft_passes) :
           TexturesOf(pass.framebuffer) \cap TexturesOf(SampledBy(pass)) = {}
    /\ \A pass \in Range(pass_bindings["bloom_downsample"]) :
           \E mip_level \in 0 .. image_mip_levels - 2 :
               /\ SampledBy(pass) = { SubImage("Bloom0", 0, mip_level) }
               /\ pass.framebuffer = { SubImage("Bloom0", 0, mip_level + 1) }

\* the mip levels the framebuffers of a sequence of pairs attach
TargetMipLevels(pairs) ==
    { sub_image[3] : sub_image \in UNION { pass.framebuffer : pass \in Range(pairs) } }

\* the mip levels the descriptor sets of a sequence of pairs sample
SourceMipLevels(pairs) ==
    { sub_image[3] : sub_image \in UNION { SampledBy(pass) : pass \in Range(pairs) } }

\* C26: for a bloom texture with N mip levels, a bloom downsample chain that
\* has been built targets exactly the mip levels 1..N-1 and samples exactly
\* the mip levels 0..N-2, all of them below N; this for the chain of
\* RendererData_Bloom and for the chain of PostProcessData_Bloom.
BloomDownsampleWithinMipLevels ==
    \A f \in { "bloom_downsample", "post_process_bloom_downsample" } :
        pass_bindings[f] # << >> =>
            /\ TargetMipLevels(pass_bindings[f]) = 1 .. image_mip_levels - 1
            /\ SourceMipLevels(pass_bindings[f]) = 0 .. image_mip_levels - 2

\* every feature holds its pairs, the bloom chain has several mip levels and the
\* FFT wave passes were rendered
PingPongPassesRendered ==
    /\ \A f \in PassFeatures : pass_bindings[f] # << >>
    /\ image_mip_levels > 2
    /\ Len(fft_passes) = 2 * PASSES

\* C18: from current = SSRResolved, previous = SSRResolvedPrev, the two roles are
\* exchanged after an odd number of SSR updates and are the initial ones again
\* after an even number.
SsrRolesFollowParity ==
    /\ ssr_update_count % 2 = 1 =>
           /\ current_ssr_resolved = "SSRResolvedPrev"
           /\ previous_ssr_resolved = "SSRResolved"
    /\ ssr_update_count % 2 = 0 =>
           /\ current_ssr_resolved = "SSRResolved"
           /\ previous_ssr_resolved = "SSRResolvedPrev"

\* the roles have been exchanged and exchanged back, and once more
SsrUpdatedThreeTimes ==
    /\ ssr_update_count = 3
    /\ current_ssr_resolved = "SSRResolvedPrev"

(* ---------------------------------------------------------------------- *)
(* Mip chains                                                              *)
(* ---------------------------------------------------------------------- *)
\* the layers the texture of a mip-chain feature has
LayersOf(feature) == IF feature = "fft_a_generate_mips" THEN image_layers ELSE 1

TextureOf(feature) ==
    IF feature = "hierachical_min_z" THEN "HierarchicalMinZ"
    ELSE IF feature = "scene_color_downsampling" THEN "SceneColor"
    ELSE "FFT_A"

\* C19: for a texture of N mip levels a mip-chain feature (hierarchical min-Z,
\* scene-colour downsampling, FFT mip generation) builds exactly N - 1
\* descriptor sets per array layer, and set i (from 0) binds mip level i at
\* binding 0 and mip level i + 1 at binding 1 of that layer.
MipChainBindsLevelAndNext ==
    \A feature \in MipFeatures :
        mip_descriptor_sets[feature] # << >> =>
            /\ Len(mip_descriptor_sets[feature]) = LayersOf(feature)
            /\ \A layer \in 0 .. LayersOf(feature) - 1 :
                   LET sets == mip_descriptor_sets[feature][layer + 1]
                   IN  /\ Len(sets) = image_mip_levels - 1
                       /\ \A i \in 0 .. Len(sets) - 1 :
                              /\ DOMAIN sets[i + 1] = { 0, 1 }
                              /\ sets[i + 1][0] = { SubImage(TextureOf(feature), layer, i) }
                              /\ sets[i + 1][1] = { SubImage(TextureOf(feature), layer, i + 1) }

\* every mip-chain feature is initialised, for targets of several mip levels and
\* FFT targets of several layers
MipChainsBuilt ==
    /\ \A feature \in MipFeatures : mip_descriptor_sets[feature] # << >>
    /\ image_mip_levels > 2
    /\ image_layers > 1
    /\ Len(mip_descriptor_sets["fft_a_generate_mips"][2]) = image_mip_levels - 1

(* ---------------------------------------------------------------------- *)
(* Failures of submit and present                                          *)
(* ---------------------------------------------------------------------- *)
\* the present results that are neither a success nor a stale swapchain
FatalPresentResults == PresentResults \ { "success", "suboptimal", "out_of_date" }

\* C15: a submit or present failure other than out-of-date or suboptimal ends
\* the application: once present has failed so, the event loop does not go on
\* to render another frame.
FatalPresentStopsRendering ==
    (present_result \in FatalPresentResults /\ pc \in { "idle", "render_scene", "resize_window" })
        => ~run_application

(* ---------------------------------------------------------------------- *)
(* The camera and the recreation                                           *)
(* ---------------------------------------------------------------------- *)
\* C16: the camera is given a new window size only once the recreation for
\* that size is complete: in the step that updates it the swapchain has that
\* size and need_recreate_swapchain is clear.
CameraUpdatedAfterRecreation ==
    [][ camera_aspect' # camera_aspect =>
            /\ swapchain_extent' = camera_aspect'
            /\ ~need_recreate_swapchain' ]_vars


(* ---------------------------------------------------------------------- *)
(* The render-target table across a resize                                 *)
(* ---------------------------------------------------------------------- *)
\* what the table holds of one target apart from its GPU handles
texture_structure(texture) ==
    [ format |-> texture.format, width |-> texture.width,
      height |-> texture.height, layer |-> texture.layer,
      mip_levels |-> texture.mip_levels ]

\* the kinds in the table, each with its structure
table_structure(map) ==
    [ k \in { kind \in DOMAIN map : map[kind] # NoTexture } |->
        texture_structure(map[k]) ]

\* C20: a resize_window entered with the surface at the extent the
\* swapchain already has leaves the render-target table with the same set of
\* kinds, each with the same format, width, height, layer count and mip
\* count as before the call.
SameExtentResizeKeepsStructure ==
    [][ ( /\ pc = "resize_window"
          /\ pc' # "resize_window"
          /\ window_size = swapchain_extent )
        => table_structure(render_target_data_map')
             = table_structure(render_target_data_map) ]_vars

\* the one resize so far was entered at the initial extent and has rebuilt
\* the whole table with new textures
ResizedAtSameExtent ==
    /\ texture_gen = 2
    /\ pc # "resize_window"
    /\ swapchain_extent = initial_window_size
    /\ \A k \in RenderTargetKinds \ { "MaxBound" } :
           /\ render_target_data_map[k].gen = 1
           /\ render_target_data_map[k].mip_levels >= 1
    /\ render_target_data_map["SceneColor"].mip_levels = 11
    /\ render_target_data_map["FFT_A"].layer = FFT_LAYER_COUNT


(* ---------------------------------------------------------------------- *)
(* The numerical functions, called on their own                            *)
(* ---------------------------------------------------------------------- *)
\* widths, heights and depths given to create_render_target
TextureSizes == { 1, 150, 300, 1024, 2 ^ MaxSizeBits - 1 }

\* a create info with the given size and mipmap request
SizedCreateInfo(width, height, depth, mipmap) ==
    [ TextureCreateInfo("SceneColor", width, height)
        EXCEPT !.texture_depth = depth, !.enable_mipmap = mipmap ]

\* the widths and heights of a texture whose mips are generated
DispatchBases ==
    { << 1024, 768 >>, << 800, 600 >>, << 256, 256 >>, << 2048, 1 >>,
      << 1, 1 >>, << 3, 2 >> }

\* one axis of `dispatch_compute_pipeline(.., max(1, group >> (mip_level + 1)), ..)`
\* without the lower limit
dispatch_group_count_unclamped(group, mip_level) ==
    group \div 2 ^ (mip_level + 1)

\* one axis of `dispatch_compute_pipeline(.., max(1, group >> (mip_level + 1)), ..)`
dispatch_group_count(group, mip_level) ==
    Max(1, group \div 2 ^ (mip_level + 1))

\* the descriptor sets prepare_framebuffer_and_descriptors makes for one layer
\* of a texture of this size: one per mip level but the last
mip_level_descriptor_sets(group_x, group_y) ==
    calc_mip_levels(group_x, group_y, 1) - 1

\* the group counts simulate_fft_waves dispatches, per layer and mip level
generate_mips_dispatches(group_x, group_y, layer_count) ==
    [ layer \in 1 .. layer_count |->
        [ n \in 1 .. mip_level_descriptor_sets(group_x, group_y) |->
            << dispatch_group_count(group_x, n - 1),
               dispatch_group_count(group_y, n - 1), 1 >> ] ]

\* initialize_fft_ocean has reset the seed and calls generate_waves_spectrum,
\* in a build with or without overflow checks
SpectrumInit ==
    /\ overflow_checks \in BOOLEAN
    /\ spectrum_x = 0
    /\ spectrum_y = 0
    /\ spectrum_index = << U32(FALSE, 0, 0), U32(FALSE, 0, 0) >>
    /\ fft_seed = DEFAULT_FFT_SEED
    /\ arithmetic_overflow = FALSE

\* a create info is about to be given to create_render_target, or a texture's
\* mips are about to be generated
NumericInit ==
    /\ RendererInit
    /\ frame_fences = [ k \in FRAME_INDICES |-> TRUE ]
    /\ RecordIdle
    /\ PostProcessIdle
    /\ EventIdle
    /\ num_pc = "start"
    /\ created_texture = NoTexture
    /\ dispatched = << >>
    /\ \/ /\ \E width \in TextureSizes, height \in TextureSizes,
                depth \in TextureSizes, mipmap \in BOOLEAN :
                 texture_create_info = SizedCreateInfo(width, height, depth, mipmap)
          /\ dispatch_group = << 1, 1 >>
          /\ generate_mips_layers = 0
          /\ SpectrumIdle
       \/ /\ texture_create_info = TextureCreateInfo("None", 1, 1)
          /\ dispatch_group \in DispatchBases
          /\ generate_mips_layers \in 1 .. MaxLayers
          /\ SpectrumIdle
       \/ /\ texture_create_info = TextureCreateInfo("None", 1, 1)
          /\ dispatch_group = << 1, 1 >>
          /\ generate_mips_layers = 0
          /\ SpectrumInit

\* texture::create_render_target
CreateRenderTarget ==
    /\ num_pc = "start"
    /\ generate_mips_layers = 0
    /\ created_texture' = create_render_target(texture_create_info, 0)
    /\ num_pc' = "create_render_target"
    /\ UNCHANGED << texture_create_info, dispatch_group, generate_mips_layers,
                    dispatched, spectrumVars, rendererVars, recordVars,
                    postProcessVars, eventVars >>

\* FFTOcean::simulate_fft_waves, "fft a generate mips": the loop over the
\* layers and the mip levels of _fft_a_generate_mips_descriptor_sets
GenerateMips ==
    /\ num_pc = "start"
    /\ generate_mips_layers > 0
    /\ dispatched' = generate_mips_dispatches(dispatch_group[1], dispatch_group[2],
                                              generate_mips_layers)
    /\ num_pc' = "generate_mips"
    /\ UNCHANGED << texture_create_info, created_texture, dispatch_group,
                    generate_mips_layers, spectrumVars, rendererVars, recordVars,
                    postProcessVars, eventVars >>

\* `a - b` of two u32 below 2^16: below zero it wraps to 2^32 + a - b
u32_sub(a, b) ==
    IF a >= b THEN U32(FALSE, 0, a - b)
    ELSE U32(TRUE, 2 ^ 16 - 1, 2 ^ 16 + a - b)

\* `if (FFT_SIZE / 2) <= x { x - FFT_SIZE } else { x }`
wrapped_frequency_index(x) ==
    IF FFT_SIZE \div 2 <= x THEN u32_sub(x, FFT_SIZE) ELSE U32(FALSE, 0, x)

\* the multiplier and the increment of the seed's update
SEED_MULTIPLIER == 1103515245
SEED_INCREMENT == 12345

\* `(self._fft_seed * 1103515245 + 12345) & 0x7FFFFFFF` for a seed below
\* 2^31, computed on 16-bit halves: the masked value the wrapping operations
\* give, and whether the product or the sum leaves the range of u32
next_fft_seed(seed) ==
    LET a1 == seed \div 2 ^ 16
        a0 == seed % 2 ^ 16
        b1 == SEED_MULTIPLIER \div 2 ^ 16
        b0 == SEED_MULTIPLIER % 2 ^ 16
        low == a0 * b0 + SEED_INCREMENT
        upper == a1 * b0 + a0 * b1 + (low \div 2 ^ 16)
    IN  [ seed |-> (upper % 2 ^ 15) * 2 ^ 16 + (low % 2 ^ 16),
          overflow |-> a1 * b1 > 0 \/ upper >= 2 ^ 16 ]

\* get_spectrum_sample: `kx.abs() < k_min && ky.abs() < k_min` with
\* kx = i * 2 PI / length_scale and k_min = PI * k_min_num / k_min_den
below_k_min(i, length_scale, k_min_num, k_min_den) ==
    i.hi = 0 /\ 2 * i.lo * k_min_den < k_min_num * length_scale

\* the length scale and k_min (as numerator and denominator of its multiple
\* of PI) of the four calls of get_spectrum_sample in one iteration
SpectrumSamples ==
    << << GRID1_SIZE, 1, GRID1_SIZE >>,
       << GRID2_SIZE, FFT_SIZE, GRID1_SIZE >>,
       << GRID3_SIZE, FFT_SIZE, GRID2_SIZE >>,
       << GRID4_SIZE, FFT_SIZE, GRID3_SIZE >> >>

\* get_spectrum_sample, as far as the seed goes: st = [seed, overflow,
\* panicked]; a sample below k_min returns before the seed is touched, and
\* with overflow checks the update panics where it overflows
get_spectrum_sample(st, i, j, sample) ==
    IF st.panicked
       \/ ( /\ below_k_min(i, sample[1], sample[2], sample[3])
            /\ below_k_min(j, sample[1], sample[2], sample[3]) )
    THEN st
    ELSE LET next == next_fft_seed(st.seed)
         IN  IF next.overflow /\ overflow_checks
             THEN [ st EXCEPT !.overflow = TRUE, !.panicked = TRUE ]
             ELSE [ st EXCEPT !.seed = next.seed,
                              !.overflow = @ \/ next.overflow ]

\* one iteration of the loops of generate_waves_spectrum
spectrum_iteration(x, y, seed) ==
    LET i == wrapped_frequency_index(x)
        j == wrapped_frequency_index(y)
        st0 == [ seed |-> seed, overflow |-> i.overflow \/ j.overflow,
                 panicked |-> overflow_checks /\ (i.overflow \/ j.overflow) ]
        st1 == get_spectrum_sample(st0, i, j, SpectrumSamples[1])
        st2 == get_spectrum_sample(st1, i, j, SpectrumSamples[2])
        st3 == get_spectrum_sample(st2, i, j, SpectrumSamples[3])
        st4 == get_spectrum_sample(st3, i, j, SpectrumSamples[4])
    IN  [ i |-> i, j |-> j, seed |-> st4.seed, overflow |-> st4.overflow,
          panicked |-> st4.panicked ]

\* FFTOcean::generate_waves_spectrum, one iteration of `for x in 0..FFT_SIZE`
\* inside `for y in 0..FFT_SIZE`
GenerateWavesSpectrum ==
    /\ num_pc \in { "start", "generate_waves_spectrum" }
    /\ spectrum_y < FFT_SIZE
    /\ LET it == spectrum_iteration(spectrum_x, spectrum_y, fft_seed)
       IN  /\ spectrum_index' = << it.i, it.j >>
           /\ fft_seed' = it.seed
           /\ arithmetic_overflow' = it.overflow
           /\ num_pc' = IF it.panicked THEN "panicked" ELSE "generate_waves_spectrum"
    /\ spectrum_x' = (spectrum_x + 1) % FFT_SIZE
    /\ spectrum_y' = IF spectrum_x + 1 = FFT_SIZE THEN spectrum_y + 1 ELSE spectrum_y
    /\ UNCHANGED << overflow_checks, texture_create_info, created_texture,
                    dispatch_group, generate_mips_layers, dispatched,
                    rendererVars, recordVars, postProcessVars, eventVars >>

NumericNext ==
    \/ CreateRenderTarget
    \/ GenerateMips
    \/ GenerateWavesSpectrum

NumericSpec == NumericInit /\ [][NumericNext]_vars

\* floor(log2(max(w, h, d))) + 1
ExactMipLevels(info) ==
    LET wh == IF info.texture_width > info.texture_height
              THEN info.texture_width ELSE info.texture_height
        max_size == IF wh > info.texture_depth THEN wh ELSE info.texture_depth
    IN Log2Floor(max_size) + 1

\* C21: a render target created with mipmapping requested has exactly
\* floor(log2(max(w, h, d))) + 1 mip levels, and exactly 1 when mipmapping is
\* not requested.
MipLevelsAreFloorLog2PlusOne ==
    num_pc = "create_render_target" =>
        created_texture.mip_levels =
            IF texture_create_info.enable_mipmap
            THEN ExactMipLevels(texture_create_info)
            ELSE 1


\* width >> (m + 1), 1 where the shift leaves nothing
ShiftedOrOne(base, m) ==
    IF base >= 2 ^ (m + 1) THEN base \div 2 ^ (m + 1) ELSE 1

\* C22: for every mip transition m of a mip-downsampling dispatch over a base
\* of width W and height H the group counts are max(1, W >> (m+1)) and
\* max(1, H >> (m+1)): (512, 384) for 1024x768 and m = 0, and 1, never 0, once
\* the shift yields 0.
DispatchGroupsShiftedAndClamped ==
    num_pc = "generate_mips" =>
        /\ Len(dispatched) = generate_mips_layers
        /\ \A layer \in 1 .. Len(dispatched) :
               \A n \in 1 .. Len(dispatched[layer]) :
                   /\ dispatched[layer][n][1] = ShiftedOrOne(dispatch_group[1], n - 1)
                   /\ dispatched[layer][n][2] = ShiftedOrOne(dispatch_group[2], n - 1)
                   /\ dispatched[layer][n][1] >= 1
                   /\ dispatched[layer][n][2] >= 1
        /\ dispatch_group = << 1024, 768 >> =>
               dispatched[1][1] = << 512, 384, 1 >>

\* the mips of a 1024x768 texture have been generated: the first dispatch has
\* 512x384 groups, the last one has 1x1, where 768 >> 10 is 0
MipsOf1024x768Generated ==
    /\ num_pc = "generate_mips"
    /\ dispatch_group = << 1024, 768 >>
    /\ Len(dispatched[1]) = 10
    /\ dispatched[1][1] = << 512, 384, 1 >>
    /\ dispatched[1][10] = << 1, 1, 1 >>
    /\ 768 \div 2 ^ 10 = 0


(* ---------------------------------------------------------------------- *)
(* The debug render target                                                 *)
(* ---------------------------------------------------------------------- *)
\* `render_target_type as i32`
enum_to_int(render_target_type) ==
    CHOOSE n \in 0 .. (Len(RenderTargetType) - 1) :
        RenderTargetType[n + 1] = render_target_type

\* `std::mem::transmute(n)` of an ordinal of the enumeration
int_to_enum(n) == RenderTargetType[n + 1]

\* RendererData::next_debug_render_target
next_debug_render_target(current) ==
    IF current = "MaxBound"
    THEN int_to_enum(0)
    ELSE int_to_enum(enum_to_int(current) + 1)

\* RendererData::prev_debug_render_target
prev_debug_render_target(current) ==
    IF enum_to_int(current) = 0
    THEN int_to_enum(enum_to_int("MaxBound") - 1)
    ELSE int_to_enum(enum_to_int(current) - 1)

\* RendererData::get_render_target finds a texture: `.get(..).unwrap()`
get_render_target_found(map, render_target_type) ==
    map[render_target_type] # NoTexture

\* the renderer as initialised, nothing to draw, the debug view on BackBuffer
DebugInit ==
    /\ RendererInit
    /\ frame_fences = [ k \in FRAME_INDICES |-> TRUE ]
    /\ RecordIdle
    /\ PostProcessIdle
    /\ NumericIdle
    /\ EventIdle

\* update_event, `]` released
NextDebugRenderTarget ==
    /\ rec_pc = "idle"
    /\ debug_commands < MaxDebugCommands
    /\ debug_render_target' = next_debug_render_target(debug_render_target)
    /\ debug_commands' = debug_commands + 1
    /\ UNCHANGED << rec_pc, static_render_elements, skeletal_render_elements,
                    effect_render_group, allocated_emitters, allocated_emitter_count,
                    allocated_particle_count, recorded,
                    rendererVars, postProcessVars, numericVars,
                    eventVars >>

\* update_event, `[` released
PrevDebugRenderTarget ==
    /\ rec_pc = "idle"
    /\ debug_commands < MaxDebugCommands
    /\ debug_render_target' = prev_debug_render_target(debug_render_target)
    /\ debug_commands' = debug_commands + 1
    /\ UNCHANGED << rec_pc, static_render_elements, skeletal_render_elements,
                    effect_render_group, allocated_emitters, allocated_emitter_count,
                    allocated_particle_count, recorded,
                    rendererVars, postProcessVars, numericVars,
                    eventVars >>

\* the frame that follows: render_scene records the debug view unless the
\* target is BackBuffer, and panics where get_render_target finds no texture
RenderDebugFrame ==
    /\ rec_pc = "idle"
    /\ IF \/ debug_render_target = "BackBuffer"
          \/ get_render_target_found(render_target_data_map, debug_render_target)
       THEN /\ recorded' = render_scene(static_render_elements,
                                        skeletal_render_elements,
                                        debug_render_target)
            /\ rec_pc' = rec_pc
       ELSE /\ recorded' = recorded
            /\ rec_pc' = "panicked"
    /\ UNCHANGED << recordInputs, allocated_emitters, allocated_emitter_count,
                    allocated_particle_count, rendererVars,
                    postProcessVars, numericVars, eventVars >>

DebugNext ==
    \/ NextDebugRenderTarget
    \/ PrevDebugRenderTarget
    \/ RenderDebugFrame

DebugSpec == DebugInit /\ [][DebugNext]_vars

\* C23: after any sequence of next/previous debug-render-target commands the
\* selected debug render target is a kind with a live texture in the
\* render-target table, never the MaxBound sentinel, so that the lookup of the
\* following frame cannot fail.
DebugTargetHasLiveTexture ==
    /\ debug_render_target \in RenderTargetKinds \ { "MaxBound" }
    /\ render_target_data_map[debug_render_target] \in live_textures
    /\ rec_pc # "panicked"


(* ---------------------------------------------------------------------- *)
(* What a frame leaves behind for the next acquire                         *)
(* ---------------------------------------------------------------------- *)
\* C24: when a frame slot's image-available semaphore is passed to acquire,
\* every signal an earlier acquire placed on it has been consumed by a submit
\* waiting on it, and every image acquired earlier has been presented or
\* released by a swapchain recreation; a frame skipped because acquire
\* returned suboptimal leaves neither behind.
AcquireFindsNothingLeftBehind ==
    pc = "render_scene" =>
        /\ ~image_available_semaphores[frame_index]
        /\ \A i \in SWAPCHAIN_IMAGE_INDICES :
               /\ img_pending_sem[i] # frame_index
               /\ ~img_acquired[i]


(* ---------------------------------------------------------------------- *)
(* run_application: the event loop's lifecycle and what its handlers       *)
(* unwrap.  The frame tick is followed up to its call of render_scene,     *)
(* whose own steps are the subject of Spec.                                *)
(* ---------------------------------------------------------------------- *)
\* the builds of the event loop: `#[cfg(target_os = "android")]` or not
TargetOses == { "android", "other" }

\* nothing created yet, or everything destroyed
NoRendererData ==
    [ map |-> [ k \in RenderTargetKinds |-> NoTexture ], live |-> {},
      fbs |-> unload_graphics_datas.fbs, dss |-> unload_graphics_datas.dss,
      extent |-> initial_window_size, log |-> << >> ]

\* the closure's captured state as one value
captured_state ==
    [ need_initialize |-> need_initialize,
      initialize_done |-> initialize_done,
      run_application |-> run_application,
      maybe_application_data |-> maybe_application_data,
      control_flow |-> control_flow,
      key_escape_pressed |-> key_escape_pressed,
      mouse_btn_r_pressed |-> mouse_btn_r_pressed,
      dereferenced |-> "nothing",
      window_size |-> window_size,
      camera_aspect |-> camera_aspect,
      need_recreate_swapchain |-> need_recreate_swapchain,
      renderer_data |-> [ map |-> render_target_data_map, live |-> live_textures,
                          fbs |-> framebuffer_datas, dss |-> descriptor_sets,
                          extent |-> swapchain_extent, log |-> << >> ],
      fft_framebuffers |-> fft_framebuffers,
      texture_gen |-> texture_gen ]

\* `if need_initialize { .. }` at the top of the closure: everything is
\* created for the window size captured at start-up
initialize_if_needed(a) ==
    IF ~a.need_initialize THEN a
    ELSE LET created == create_render_targets(NoRendererData, initial_window_size,
                                              a.texture_gen)
         IN [ a EXCEPT !.renderer_data =
                           [ created EXCEPT !.fbs = load_graphics_datas(created.map).fbs,
                                            !.dss = load_graphics_datas(created.map).dss ],
                       !.fft_framebuffers = initialize_scene_graphics_data(created.map),
                       !.texture_gen = @ + 1,
                       !.need_recreate_swapchain = FALSE,
                       !.window_size = initial_window_size,
                       !.camera_aspect = initial_window_size,
                       !.key_escape_pressed = FALSE,
                       !.mouse_btn_r_pressed = FALSE,
                       !.maybe_application_data = "live",
                       !.run_application = TRUE,
                       !.need_initialize = FALSE,
                       !.initialize_done = TRUE ]

\* `maybe_application_data.as_ref().unwrap()`: a panic on None
unwrap(a) ==
    [ a EXCEPT !.dereferenced = a.maybe_application_data,
               !.control_flow = IF a.maybe_application_data = "none"
                                THEN "panicked" ELSE @ ]

\* ApplicationData::terminate_applicateion
terminate_applicateion(a) ==
    [ a EXCEPT !.renderer_data = [ destroy_render_targets(@)
                                     EXCEPT !.fbs = unload_graphics_datas.fbs,
                                            !.dss = unload_graphics_datas.dss ],
               !.fft_framebuffers = destroy_scene_graphics_data,
               !.maybe_application_data = "terminated" ]

\* Event::Resumed
on_resumed(a) ==
    IF target_os = "android" /\ ~a.initialize_done
    THEN [ a EXCEPT !.need_initialize = TRUE ]
    ELSE a

\* Event::Suspended
on_suspended(a) ==
    IF target_os = "android" /\ a.run_application
    THEN LET u == unwrap(a)
         IN IF u.control_flow = "panicked" THEN u
            ELSE [ terminate_applicateion(u)
                     EXCEPT !.maybe_application_data = "none",
                            !.run_application = FALSE,
                            !.initialize_done = FALSE ]
    ELSE a

\* Event::NewEvents: clear_input_events
on_new_events(a) ==
    IF a.run_application
    THEN LET u == unwrap(a)
         IN IF u.control_flow = "panicked" THEN u
            ELSE [ u EXCEPT !.key_escape_pressed = FALSE ]
    ELSE a

\* Event::MainEventsCleared: the Escape key ends the application, otherwise
\* the tick recreates the swapchain if it has to and goes on to render_scene
on_main_events_cleared(a) ==
    IF a.run_application
    THEN LET u == unwrap(a)
         IN IF u.control_flow = "panicked" THEN u
            ELSE IF u.key_escape_pressed
            THEN [ terminate_applicateion(u) EXCEPT !.control_flow = "exit",
                                                    !.run_application = FALSE ]
            ELSE IF u.need_recreate_swapchain
            THEN LET r == resize_window(u.renderer_data, u.window_size,
                                        u.texture_gen)
                 IN [ u EXCEPT !.renderer_data = r,
                               !.fft_framebuffers =
                                   initialize_scene_graphics_data(r.map),
                               !.texture_gen = @ + 1,
                               !.need_recreate_swapchain = FALSE ]
            ELSE u
    ELSE a

\* WindowEvent::Resized
on_resized(a, size) ==
    IF a.initialize_done
    THEN LET u == unwrap(a)
         IN IF u.control_flow = "panicked" THEN u
            ELSE [ u EXCEPT !.window_size = size,
                            !.camera_aspect = size,
                            !.need_recreate_swapchain =
                                @ \/ u.renderer_data.extent # size ]
    ELSE a

\* WindowEvent::MouseInput, the right button
on_mouse_input(a, pressed) ==
    LET u == unwrap(a)
    IN IF u.control_flow = "panicked" THEN u
       ELSE [ u EXCEPT !.mouse_btn_r_pressed = pressed ]

\* WindowEvent::CursorMoved
on_cursor_moved(a) == unwrap(a)

\* WindowEvent::KeyboardInput, the Escape key
on_keyboard_input(a, pressed) ==
    IF a.run_application
    THEN LET u == unwrap(a)
         IN IF u.control_flow = "panicked" THEN u
            ELSE [ u EXCEPT !.key_escape_pressed = IF pressed THEN TRUE ELSE @ ]
    ELSE a

\* WindowEvent::Touch of the first finger: Started presses the right button,
\* Ended releases it
on_touch(a, phase) ==
    LET u == unwrap(a)
    IN IF u.control_flow = "panicked" THEN u
       ELSE [ u EXCEPT !.mouse_btn_r_pressed =
                           IF phase = "Started" THEN TRUE
                           ELSE IF phase = "Ended" THEN FALSE ELSE @ ]

TouchPhases == { "Started", "Moved", "Ended" }

\* the closure returns: its captured state is what the handler left
Returned(a) ==
    /\ need_initialize' = a.need_initialize
    /\ initialize_done' = a.initialize_done
    /\ run_application' = a.run_application
    /\ maybe_application_data' = a.maybe_application_data
    /\ control_flow' = a.control_flow
    /\ key_escape_pressed' = a.key_escape_pressed
    /\ mouse_btn_r_pressed' = a.mouse_btn_r_pressed
    /\ dereferenced' = a.dereferenced
    /\ window_size' = a.window_size
    /\ camera_aspect' = a.camera_aspect
    /\ need_recreate_swapchain' = a.need_recreate_swapchain
    /\ render_target_data_map' = a.renderer_data.map
    /\ live_textures' = a.renderer_data.live
    /\ framebuffer_datas' = a.renderer_data.fbs
    /\ descriptor_sets' = a.renderer_data.dss
    /\ swapchain_extent' = a.renderer_data.extent
    /\ fft_framebuffers' = a.fft_framebuffers
    /\ texture_gen' = a.texture_gen
    /\ UNCHANGED << target_os, pc, frame_index, swapchain_index, syncVars,
                    command_buffers, gpuVars, cpu_writing, peVars,
                    fence_observed, cb_last_slot, cb_pending, acquire_sem,
                    acquire_result, present_result, recorded_this_tick,
                    tickVars, event_since_clear, frames_rendered >>
    /\ UNCHANGED << recordVars, postProcessVars, numericVars >>

\* the event loop calls the closure until ControlFlow::Exit or a panic; the
\* creations of a behaviour stay within MaxRecreate
Delivered == control_flow = "poll" /\ texture_gen <= MaxRecreate + 1

\* before the first event: nothing created; off Android the first event
\* initializes
EventInit ==
    /\ target_os \in TargetOses
    /\ need_initialize = (target_os # "android")
    /\ initialize_done = FALSE
    /\ run_application = FALSE
    /\ maybe_application_data = "none"
    /\ control_flow = "poll"
    /\ key_escape_pressed = FALSE
    /\ mouse_btn_r_pressed = FALSE
    /\ dereferenced = "nothing"
    /\ render_target_data_map = NoRendererData.map
    /\ live_textures = NoRendererData.live
    /\ framebuffer_datas = NoRendererData.fbs
    /\ descriptor_sets = NoRendererData.dss
    /\ swapchain_extent = NoRendererData.extent
    /\ fft_framebuffers = destroy_scene_graphics_data
    /\ texture_gen = 0
    /\ need_recreate_swapchain = FALSE
    /\ FrameLoopInit
    /\ frame_fences = [ k \in FRAME_INDICES |-> TRUE ]
    /\ RecordIdle
    /\ PostProcessIdle
    /\ NumericIdle

EventResumed ==
    /\ Delivered
    /\ Returned(on_resumed(initialize_if_needed(captured_state)))

EventSuspended ==
    /\ Delivered
    /\ Returned(on_suspended(initialize_if_needed(captured_state)))

EventNewEvents ==
    /\ Delivered
    /\ Returned(on_new_events(initialize_if_needed(captured_state)))

EventMainEventsCleared ==
    /\ Delivered
    /\ Returned(on_main_events_cleared(initialize_if_needed(captured_state)))

WindowEventResized ==
    /\ Delivered
    /\ \E size \in WindowSizes :
           Returned(on_resized(initialize_if_needed(captured_state), size))

WindowEventMouseInput ==
    /\ Delivered
    /\ \E pressed \in BOOLEAN :
           Returned(on_mouse_input(initialize_if_needed(captured_state), pressed))

WindowEventCursorMoved ==
    /\ Delivered
    /\ Returned(on_cursor_moved(initialize_if_needed(captured_state)))

WindowEventKeyboardInput ==
    /\ Delivered
    /\ \E pressed \in BOOLEAN :
           Returned(on_keyboard_input(initialize_if_needed(captured_state), pressed))

WindowEventTouch ==
    /\ Delivered
    /\ \E phase \in TouchPhases :
           Returned(on_touch(initialize_if_needed(captured_state), phase))

EventNext ==
    \/ EventResumed
    \/ EventSuspended
    \/ EventNewEvents
    \/ EventMainEventsCleared
    \/ WindowEventResized
    \/ WindowEventMouseInput
    \/ WindowEventCursorMoved
    \/ WindowEventKeyboardInput
    \/ WindowEventTouch

EventSpec == EventInit /\ [][EventNext]_vars

\* C25: whatever the order of window, input and lifecycle events, a handler
\* unwraps the application, renderer or scene state only while that state
\* exists and has not been terminated: what the last handler found behind
\* the Options it unwrapped is never absent and never destroyed state.
HandlersFindLiveState == dereferenced \in { "nothing", "live" }


\* C29: wave-spectrum generation performs no unsigned overflow or underflow:
\* for every x and y in 0..FFT_SIZE the wrapped frequency indices i and j and
\* every update of the seed stay within the range of u32, so that no
\* iteration of the loops leaves that range.
SpectrumStaysWithinU32 == ~arithmetic_overflow


\* C30: FFTOcean::update never takes a remainder by zero: whenever it is
\* called, the list of descriptor sets whose length is the modulus of the
\* caustic index is not empty.
UpdateNeverDividesByZero == ocean_pc # "remainder_by_zero"

====
